---- MODULE Spec2Model ----
(***************************************************************************)
(* A model of the FTDI serial-engine layer of periph/host: the FT232H      *)
(* facade (MPSSE command-stream SPI and I2C engines sharing pins D0~D3)    *)
(* and the FT232R facade (synchronous bit-bang SPI engine).                *)
(*                                                                         *)
(* Every public entry point is one action: the facade mutex is held for    *)
(* the whole body, so the body is one atomic step.  Each action records    *)
(* the call in `call` and the bytes the transport accepted during the      *)
(* call in `wire` (d2xx control requests go to `ctl`).                     *)
(*                                                                         *)
(* Frequencies are whole hertz (physic.Frequency counts micro-hertz in an  *)
(* int64; every frequency used here is a whole number of hertz and no      *)
(* product exceeds 2^31).                                                  *)
(***************************************************************************)
EXTENDS Integers, Sequences, FiniteSets, TLC

VARIABLES
    dev,        \* which chip driver.go opened: "FT232H" or "FT232R"
    usingSPI,   \* FT232H.usingSPI / FT232R.usingSPI
    usingI2C,   \* FT232H.usingI2C
    maxFreq,    \* spiMPSEEPort.maxFreq / spiSyncPort.maxFreq (0: not set)
    conn,       \* spiMPSEEConn / spiSyncConn fields set at Connect
    dbus,       \* FT232H.dbus cache: [direction, value]
    pullUp,     \* i2cBus.pullUp
    dmask,      \* FT232R.dmask
    dvalue,     \* FT232R.dvalue
    hwClock,    \* the clock rate the last accepted clock command programs
    holdsPort,  \* the caller holds the port object returned by SPI()
    holdsConn,  \* the caller holds the conn object a Connect returned
    holdsBus,   \* the caller holds the bus object returned by I2C()
    call,       \* the last call: [op, ret]
    wire,       \* bytes accepted by the transport during the last call
    ctl,        \* d2xx control requests accepted during the last call
    rbuf,       \* the caller's read buffers after the last call
    rxq,        \* bytes the device has sent that no read has taken yet
    cbus,       \* FT232H.cbus cache: [direction, value]
    mu,         \* FT232H.mu: 0 when free, else the goroutine holding it
    thr,        \* per goroutine: the call it is inside and where
    line,       \* one gpioioctl.GPIOLine: its fields
    kern        \* the kernel's side of that line: request, flags, deadline

vars == <<dev, usingSPI, usingI2C, maxFreq, conn, dbus, pullUp, dmask, dvalue,
          hwClock, holdsPort, holdsConn, holdsBus, call, wire, ctl, rbuf, rxq, cbus, mu, thr,
          line, kern>>

-----------------------------------------------------------------------------
(* Units and constants of periph.io/x/conn/v3 as the source uses them.     *)

Hertz == 1
KiloHertz == 1000
MegaHertz == 1000000
GigaHertz == 1000000000

\* spi.Mode flag bits (conn/v3/spi); Mode0..Mode3 are 0..3.
HalfDuplex == 4
NoCS == 8
LSBFirst == 16

-----------------------------------------------------------------------------
(* Byte arithmetic.                                                        *)

Bit(x, i) == (x \div (2 ^ i)) % 2

\* x & y on 4-bit operands, tabulated.
And4 ==
    [a \in 0..15 |-> [b \in 0..15 |->
        Bit(a, 0) * Bit(b, 0) + 2 * (Bit(a, 1) * Bit(b, 1))
        + 4 * (Bit(a, 2) * Bit(b, 2)) + 8 * (Bit(a, 3) * Bit(b, 3))]]

\* x & y on bytes
BitAnd(x, y) == And4[x % 16][y % 16] + 16 * And4[x \div 16][y \div 16]

\* x &^ y
AndNot(x, y) == x - BitAnd(x, y)

BitOr(x, y) == x + y - BitAnd(x, y)

BitXor(x, y) == x + y - 2 * BitAnd(x, y)

\* byte(x) of a non-negative integer
Byte(x) == x % 256

RECURSIVE FlattenFrom(_, _)
FlattenFrom(ss, i) ==
    IF i > Len(ss) THEN <<>> ELSE ss[i] \o FlattenFrom(ss, i + 1)

\* The concatenation of a sequence of sequences.
Flatten(ss) == FlattenFrom(ss, 1)

\* cmd, n times over.
Repeat(n, cmd) == Flatten([i \in 1..n |-> cmd])

-----------------------------------------------------------------------------
(* MPSSE opcodes.                                                          *)

dataOut == 16
dataIn == 32
dataOutFall == 1
dataInFall == 4
dataLSBF == 8
dataBit == 2
dataTristate == 158
gpioSetD == 128
clock30MHz == 138
clock6MHz == 139
clockSetDivisor == 134
clock3Phase == 140
clock2Phase == 141
flush == 135

-----------------------------------------------------------------------------
\* Only the first MaxFail write requests of a call may be rejected.
MaxFail == 1

(***************************************************************************)
(* The transport: `fails` is the set of 1-based indices of the h.Write     *)
(* requests of the call that the device rejects.  A rejected request       *)
(* delivers nothing; what the handler does next is the handler's code.     *)

FailSets == SUBSET (1..MaxFail)

Ok(i, fails) == i \notin fails

-----------------------------------------------------------------------------
(* handle.MPSSEClock: the divisor and the rate the code computes.          *)

MPSSEClock(f) ==
    LET base30 == 30 * MegaHertz
        div30 == base30 \div f
        base6 == base30 \div 5
        div6 == base6 \div f
    IN  IF div30 < 65536
        THEN [err |-> FALSE, rate |-> base30 \div div30,
              cmd |-> <<clock30MHz, clockSetDivisor, Byte(div30 - 1), Byte((div30 - 1) \div 256)>>]
        ELSE IF div6 < 65536
        THEN [err |-> FALSE, rate |-> base6 \div div6,
              cmd |-> <<clock6MHz, clockSetDivisor, Byte(div6 - 1), Byte((div6 - 1) \div 256)>>]
        ELSE [err |-> TRUE, rate |-> 0, cmd |-> <<>>]

\* handle.MPSSEDBus
MPSSEDBus(mask, value) == <<gpioSetD, value, mask>>

-----------------------------------------------------------------------------
(* spiMPSEEConn.resetIdle on the cached D-bus bytes.                       *)

clkBit == 1
mosiBit == 2
misoBit == 4
csBit == 8

resetIdle(d, c) ==
    LET dir1 == IF ~c.noCS THEN BitOr(BitAnd(d.direction, 240), csBit)
                ELSE BitAnd(d.direction, 248)
        val1 == IF ~c.noCS THEN BitOr(BitAnd(d.value, 240), csBit)
                ELSE BitAnd(d.value, 248)
        dir2 == BitOr(dir1, BitOr(mosiBit, clkBit))
        val2 == IF c.clkActiveLow THEN BitOr(val1, clkBit) ELSE val1
    IN  [direction |-> dir2, value |-> val2]

-----------------------------------------------------------------------------
(* Inputs.                                                                 *)

\* Connect arguments <<f, mode, bits>>: valid ones, then one per way of being
\* invalid.
ConnectInputs ==
    {<<7 * MegaHertz, 0, 8>>, <<40 * MegaHertz, 0, 8>>, <<7 * MegaHertz, NoCS + 3, 8>>,
     <<50 * Hertz, 0, 8>>, <<2 * GigaHertz, 0, 8>>,
     <<7 * MegaHertz, 0, 16>>, <<7 * MegaHertz, 0, 12>>,
     <<7 * MegaHertz, HalfDuplex, 8>>, <<7 * MegaHertz, 32, 8>>}
FreqInputs == {50 * Hertz, 7 * MegaHertz, 40 * MegaHertz, 2 * GigaHertz}
I2CFreqInputs == {50 * Hertz, 100 * Hertz, 400 * KiloHertz, 40 * MegaHertz}

NoConn == [edgeInvert |-> FALSE, clkActiveLow |-> FALSE, noCS |-> FALSE,
           lsbFirst |-> FALSE, halfDuplex |-> FALSE]

\* The byte newFT232R reads back from the D bus into dvalue.
DValueInputs == {0, 165}

\* The goroutines that call into one device.
Goroutines == {1, 2}

\* A goroutine that is inside no call.
Idle ==
    [pc |-> "idle", op |-> "", grp |-> "", ctx |-> "none", elapsed |-> 0,
     spin |-> 0]

\* newGPIOLine: a line nobody has requested yet.
NewLine ==
    [direction |-> "NotSet", edge |-> "NoEdge", pull |-> "PullNoChange",
     fd |-> 0, fEdge |-> FALSE, consumer |-> ""]

\* The kernel's side of a line that is not requested: no open descriptor, no
\* flags, no read deadline on the edge file.
NoRequest == [open |-> FALSE, flags |-> {}, value |-> FALSE, deadline |-> "none"]

Init ==
    /\ dev \in {"FT232H", "FT232R"}
    /\ usingSPI = FALSE
    /\ usingI2C = FALSE
    /\ maxFreq = 0
    /\ conn = NoConn
    /\ dbus = [direction |-> 0, value |-> 0]
    /\ pullUp = FALSE
    /\ dmask = 0
    /\ dvalue \in (IF dev = "FT232R" THEN DValueInputs ELSE {0})
    /\ hwClock = (IF dev = "FT232R" THEN 3 * MegaHertz ELSE 30 * MegaHertz)
    /\ holdsPort = FALSE
    /\ holdsConn = FALSE
    /\ holdsBus = FALSE
    /\ call = [op |-> "open", ret |-> "ok"]
    /\ wire = <<>>
    /\ ctl = <<>>
    /\ rbuf = <<>>
    /\ rxq = <<>>
    /\ cbus = [direction |-> 0, value |-> 0]
    /\ mu = 0
    /\ thr = [g \in Goroutines |-> Idle]
    /\ line = NewLine
    /\ kern = NoRequest

-----------------------------------------------------------------------------
(* FT232H facade: bus claims.                                              *)

Returned(op, ret) == call' = [op |-> op, ret |-> ret]

\* FT232H.SPI
SPI ==
    /\ dev = "FT232H"
    /\ IF usingI2C \/ usingSPI
       THEN /\ Returned("SPI", "err:inuse")
            /\ UNCHANGED holdsPort
       ELSE /\ Returned("SPI", "ok")
            /\ holdsPort' = TRUE
    /\ wire' = <<>> /\ ctl' = <<>> /\ rbuf' = <<>> /\ UNCHANGED rxq
    /\ UNCHANGED <<dev, line, kern, cbus, mu, thr, usingSPI, usingI2C, maxFreq, conn, dbus, pullUp, dmask,
                   dvalue, hwClock, holdsConn, holdsBus>>

\* The validation spiMPSEEPort.Connect and LimitSpeed run before taking the lock.
ClampSpeed(f, ceiling) == IF f > ceiling THEN ceiling ELSE f

SpeedError(f, ceiling) ==
    \/ f > GigaHertz
    \/ ClampSpeed(f, ceiling) < 100 * Hertz

BitsErrorMultipleOnly(bits) == bits % 8 # 0
BitsError(bits) == bits % 8 # 0 \/ bits # 8

\* The mode decomposition both Connect methods perform under the lock.
ModeFlags(m) ==
    [noCS |-> BitAnd(m, NoCS) # 0,
     halfDuplex |-> BitAnd(m, HalfDuplex) # 0,
     lsbFirst |-> BitAnd(m, LSBFirst) # 0,
     rest |-> m - BitAnd(m, NoCS + HalfDuplex + LSBFirst)]

\* A test that also reprograms the clock when the request equals the cache.
connectNeedsClockAtEqual(cache, f) == cache = 0 \/ f <= cache

\* The test spiMPSEEPort.Connect makes before it calls MPSSEClock.
connectNeedsClock(cache, f) == cache = 0 \/ f < cache

\* spiMPSEEPort.Connect
Connect(f, m, bits, fails) ==
    LET fc == ClampSpeed(f, 30 * MegaHertz)
        mf == ModeFlags(m)
        c1 == [conn EXCEPT !.noCS = mf.noCS, !.halfDuplex = mf.halfDuplex,
                           !.lsbFirst = mf.lsbFirst]
        c2 == [c1 EXCEPT !.edgeInvert = BitAnd(mf.rest, 1) # 0,
                         !.clkActiveLow = BitAnd(mf.rest, 2) # 0]
        needClock == connectNeedsClock(maxFreq, fc)
        clk == MPSSEClock(fc)
        idle == resetIdle(dbus, c2)
        \* index of the MPSSEDBus write among the call's write requests
        iD == IF needClock THEN 2 ELSE 1
    IN
    /\ dev = "FT232H" /\ holdsPort
    /\ ctl' = <<>> /\ rbuf' = <<>> /\ UNCHANGED rxq
    /\ UNCHANGED <<dev, line, kern, cbus, mu, thr, usingI2C, pullUp, dmask, dvalue, holdsPort, holdsBus>>
    /\ IF SpeedError(f, 30 * MegaHertz)
       THEN /\ Returned("Connect", "err:speed") /\ UNCHANGED holdsConn
            /\ wire' = <<>>
            /\ UNCHANGED <<usingSPI, maxFreq, conn, dbus, hwClock>>
       ELSE IF BitsError(bits)
       THEN /\ Returned("Connect", "err:bits") /\ UNCHANGED holdsConn
            /\ wire' = <<>>
            /\ UNCHANGED <<usingSPI, maxFreq, conn, dbus, hwClock>>
       ELSE IF mf.halfDuplex
       THEN /\ Returned("Connect", "err:halfduplex") /\ UNCHANGED holdsConn
            /\ conn' = c1
            /\ wire' = <<>>
            /\ UNCHANGED <<usingSPI, maxFreq, dbus, hwClock>>
       ELSE IF mf.rest < 0 \/ mf.rest > 3
       THEN /\ Returned("Connect", "err:mode") /\ UNCHANGED holdsConn
            /\ conn' = c1
            /\ wire' = <<>>
            /\ UNCHANGED <<usingSPI, maxFreq, dbus, hwClock>>
       ELSE IF needClock /\ (clk.err \/ ~Ok(1, fails))
       THEN /\ Returned("Connect", "err:io") /\ UNCHANGED holdsConn
            /\ conn' = c2
            /\ wire' = <<>>
            /\ UNCHANGED <<usingSPI, maxFreq, dbus, hwClock>>
       ELSE /\ conn' = c2
            /\ maxFreq' = IF needClock THEN fc ELSE maxFreq
            /\ hwClock' = IF needClock THEN clk.rate ELSE hwClock
            /\ dbus' = idle
            /\ IF Ok(iD, fails)
               THEN /\ wire' = (IF needClock THEN clk.cmd ELSE <<>>)
                               \o MPSSEDBus(idle.direction, idle.value)
                    /\ usingSPI' = TRUE
                    /\ Returned("Connect", "ok")
                    /\ holdsConn' = TRUE
               ELSE /\ wire' = (IF needClock THEN clk.cmd ELSE <<>>)
                    /\ UNCHANGED usingSPI
                    /\ Returned("Connect", "err:io") /\ UNCHANGED holdsConn

\* spiMPSEEPort.LimitSpeed
LimitSpeed(f, fails) ==
    LET fc == ClampSpeed(f, 30 * MegaHertz)
        clk == MPSSEClock(fc)
    IN
    /\ dev = "FT232H" /\ holdsPort
    /\ ctl' = <<>> /\ rbuf' = <<>> /\ UNCHANGED rxq
    /\ UNCHANGED <<dev, line, kern, cbus, mu, thr, usingSPI, usingI2C, conn, dbus, pullUp, dmask, dvalue,
                   holdsPort, holdsConn, holdsBus>>
    /\ IF SpeedError(f, 30 * MegaHertz)
       THEN /\ Returned("LimitSpeed", "err:speed")
            /\ wire' = <<>>
            /\ UNCHANGED <<maxFreq, hwClock>>
       ELSE IF maxFreq # 0 /\ maxFreq <= fc
       THEN /\ Returned("LimitSpeed", "ok")
            /\ wire' = <<>>
            /\ UNCHANGED <<maxFreq, hwClock>>
       ELSE /\ maxFreq' = fc
            /\ IF ~clk.err /\ Ok(1, fails)
               THEN /\ wire' = clk.cmd
                    /\ hwClock' = clk.rate
                    /\ Returned("LimitSpeed", "ok")
               ELSE /\ wire' = <<>>
                    /\ UNCHANGED hwClock
                    /\ Returned("LimitSpeed", "err:io")

\* spiMPSEEPort.Close
SPIClose ==
    /\ dev = "FT232H" /\ holdsPort
    /\ usingSPI' = FALSE
    /\ maxFreq' = 0
    /\ conn' = NoConn
    /\ Returned("SPIClose", "ok")
    /\ wire' = <<>> /\ ctl' = <<>> /\ rbuf' = <<>> /\ UNCHANGED rxq
    /\ UNCHANGED <<dev, line, kern, cbus, mu, thr, usingI2C, dbus, pullUp, dmask, dvalue, hwClock,
                   holdsPort, holdsConn, holdsBus>>

-----------------------------------------------------------------------------
(* SPI transfers over MPSSE.                                               *)

\* The index of the first of n requests the device rejects, n + 1 if none.
FirstFail(n, fails) ==
    IF \E i \in 1..n : i \in fails
    THEN CHOOSE i \in 1..n : i \in fails /\ \A j \in 1..(i - 1) : j \notin fails
    ELSE n + 1

\* verifyBuffers
verifyBuffers(w, r) ==
    IF Len(w) # 0
    THEN IF Len(r) # 0 /\ Len(w) # Len(r) THEN "err:size"
         ELSE IF Len(w) > 65536 THEN "err:toolong" ELSE "none"
    ELSE IF Len(r) # 0 /\ Len(r) > 65536 THEN "err:toolong" ELSE "none"

\* The verification both TxPackets methods run on one packet.
PacketError(p) ==
    IF p.KeepCS THEN "err:keepcs"
    ELSE IF p.BitsPerWord % 8 # 0 THEN "err:bits"
    ELSE IF p.BitsPerWord # 0 /\ p.BitsPerWord # 8 THEN "err:bits"
    ELSE verifyBuffers(p.W, p.R)

\* A verification that stops after the first packet.
VerifyFirstPacket(pkts) ==
    IF Len(pkts) = 0 THEN "none" ELSE PacketError(pkts[1])

\* The error of the first packet that fails the verification, "none" if all
\* pass.
VerifyPackets(pkts) ==
    IF \E k \in 1..Len(pkts) : PacketError(pkts[k]) # "none"
    THEN PacketError(pkts[CHOOSE k \in 1..Len(pkts) :
                              /\ PacketError(pkts[k]) # "none"
                              /\ \A j \in 1..(k - 1) :
                                     PacketError(pkts[j]) = "none"])
    ELSE "none"

\* An opcode that leaves both directions on the rising edge.
mpsseTxOpNoEdge(w, r, ew, er, lsbf) ==
    (IF lsbf THEN dataLSBF ELSE 0) + (IF w THEN dataOut ELSE 0)
    + (IF r THEN dataIn ELSE 0)

\* mpsseTxOp
mpsseTxOp(w, r, ew, er, lsbf) ==
    (IF lsbf THEN dataLSBF ELSE 0)
    + (IF w THEN dataOut + (IF ew = "FallingEdge" THEN dataOutFall ELSE 0)
       ELSE 0)
    + (IF r THEN dataIn + (IF er = "FallingEdge" THEN dataInFall ELSE 0)
       ELSE 0)

\* What a transfer does with the device, in order: a write of bytes, or a read
\* of n bytes into packet pkt's read buffer at offset off.
WriteEv(bytes) ==
    [kind |-> "Write", data |-> bytes, pkt |-> 0, off |-> 0, n |-> 0]
ReadEv(k, off, n) ==
    [kind |-> "Read", data |-> <<>>, pkt |-> k, off |-> off, n |-> n]

\* Size of the command buffer of spiMPSEEConn.TxPackets.
mpsseBufSize == 512

Min(a, b) == IF a < b THEN a ELSE b

\* The I/O loop of spiMPSEEConn.TxPackets for packet k: cmd is what is already
\* queued, W what is left to send, roff and rlen the part of the read buffer
\* not read yet, pending the bytes sent and not yet read back.
RECURSIVE mpsseIOLoop(_, _, _, _, _, _, _)
mpsseIOLoop(k, op, cmd, W, roff, rlen, pending) ==
    IF Len(W) = 0
    THEN IF rlen # 0
         THEN <<WriteEv(<<flush>>), ReadEv(k, roff, rlen)>>
         ELSE <<>>
    ELSE LET chunk == Min(mpsseBufSize - 3 - Len(cmd), Len(W))
             rd == pending >= mpsseBufSize /\ rlen # 0
         IN  <<WriteEv(cmd \o <<op, Byte(chunk - 1), Byte((chunk - 1) \div 256)>>
                       \o SubSeq(W, 1, chunk))>>
             \o (IF rd THEN <<ReadEv(k, roff, mpsseBufSize)>> ELSE <<>>)
             \o mpsseIOLoop(k, op, <<>>, SubSeq(W, chunk + 1, Len(W)),
                            IF rd THEN roff + mpsseBufSize ELSE roff,
                            IF rd THEN rlen - mpsseBufSize ELSE rlen,
                            (IF rd THEN pending - mpsseBufSize ELSE pending)
                            + chunk)

\* What spiMPSEEConn.TxPackets does for packet k once the packets are
\* verified; d is the D bus cache after resetIdle, c the connection.
mpssePacket(k, p, d, c) ==
    LET idle == d.value
        start1 == IF ~c.noCS THEN AndNot(idle, csBit) ELSE idle
        start2 == IF c.edgeInvert THEN BitXor(start1, clkBit) ELSE start1
        stop == IF c.edgeInvert THEN BitXor(idle, clkBit) ELSE idle
        swap == c.edgeInvert # c.clkActiveLow
        ew == IF swap THEN "RisingEdge" ELSE "FallingEdge"
        er == IF swap THEN "FallingEdge" ELSE "RisingEdge"
        op == mpsseTxOp(Len(p.W) # 0, Len(p.R) # 0, ew, er, c.lsbFirst)
        cmd == Repeat(5, <<gpioSetD, idle, d.direction>>)
               \o Repeat(5, <<gpioSetD, start1, d.direction>>)
               \o (IF c.edgeInvert
                   THEN Repeat(5, <<gpioSetD, start2, d.direction>>)
                   ELSE <<>>)
    IN  IF Len(p.W) = 0 /\ Len(p.R) = 0 THEN <<>>
        ELSE mpsseIOLoop(k, op, cmd, IF Len(p.W) = 0 THEN p.R ELSE p.W,
                         0, Len(p.R), 0)
             \o <<WriteEv(<<flush>>
                          \o Repeat(5, <<gpioSetD, stop, d.direction>>)
                          \o Repeat(5, <<gpioSetD, idle, d.direction>>))>>

\* The events of a transfer up to the first write the device rejects:
\* writes[i] is the position in evs of the i-th write.
WritePositions(evs) ==
    SelectSeq([i \in 1..Len(evs) |-> i], LAMBDA i : evs[i].kind = "Write")
Executed(evs, fails) ==
    LET wp == WritePositions(evs)
        nf == FirstFail(Len(wp), fails)
    IN  IF nf <= Len(wp) THEN SubSeq(evs, 1, wp[nf] - 1) ELSE evs
WriteRejected(evs, fails) ==
    FirstFail(Len(WritePositions(evs)), fails) <= Len(WritePositions(evs))

\* The bytes the writes among evs put on the wire.
EventBytes(evs) == Flatten([i \in 1..Len(evs) |-> evs[i].data])

\* How many bytes the reads before position j took from the device.
RECURSIVE ReadBase(_, _)
ReadBase(evs, j) ==
    IF j <= 1 THEN 0 ELSE ReadBase(evs, j - 1) + evs[j - 1].n

\* The read buffers after the reads among evs took the bytes of data in order.
ReadBuffers(pkts, evs, data) ==
    [k \in 1..Len(pkts) |->
        [i \in 1..Len(pkts[k].R) |->
            IF \E j \in 1..Len(evs) :
                   /\ evs[j].kind = "Read" /\ evs[j].pkt = k
                   /\ i - 1 >= evs[j].off /\ i - 1 < evs[j].off + evs[j].n
            THEN LET j == CHOOSE j \in 1..Len(evs) :
                              /\ evs[j].kind = "Read" /\ evs[j].pkt = k
                              /\ i - 1 >= evs[j].off
                              /\ i - 1 < evs[j].off + evs[j].n
                 IN  data[ReadBase(evs, j) + i - evs[j].off]
            ELSE pkts[k].R[i]]]

\* spiMPSEEConn.TxPackets after resetIdle, with the mutex held: the commands
\* are built from d, the D bus cache as the call reads it.
TxPacketsIO(pkts, data, fails, d) ==
    \E evs \in {Flatten([k \in 1..Len(pkts) |->
                            mpssePacket(k, pkts[k], d, conn)])} :
    \E done \in {Executed(evs, fails)} :
        /\ wire' = EventBytes(done)
        /\ rbuf' = ReadBuffers(pkts, done, data)
        /\ Returned("TxPackets",
                    IF WriteRejected(evs, fails) THEN "err:io" ELSE "ok")

\* spiMPSEEConn.TxPackets. data is what the device sends back, in order.
TxPackets(pkts, data, fails) ==
    /\ dev = "FT232H" /\ holdsConn
    /\ ctl' = <<>>
    /\ UNCHANGED <<dev, line, kern, cbus, mu, thr, usingSPI, usingI2C, maxFreq, conn, pullUp, dmask,
                   dvalue, hwClock, holdsPort, holdsConn, holdsBus, rxq>>
    /\ IF VerifyPackets(pkts) # "none"
       THEN /\ Returned("TxPackets", VerifyPackets(pkts))
            /\ wire' = <<>>
            /\ rbuf' = [k \in 1..Len(pkts) |-> pkts[k].R]
            /\ UNCHANGED dbus
       ELSE \E d \in {resetIdle(dbus, conn)} :
                /\ dbus' = d
                /\ TxPacketsIO(pkts, data, fails, d)

\* spiMPSEEConn.Tx: one packet {W: w, R: r} handed to TxPackets.
SPITx(w, r, data, fails) ==
    TxPackets(<<[W |-> w, R |-> r, KeepCS |-> FALSE, BitsPerWord |-> 0]>>,
              data, fails)

-----------------------------------------------------------------------------
(* FT232R facade: SPI over synchronous bit-bang.                           *)

bitModeAsyncBitbang == 1
ft232rMaxSpeed == 3 * MegaHertz

syncMosi == 1
syncMiso == 2
syncClk == 4
syncCs == 8

\* Requests a call sends to the device, in order.
BaudReq(f) == [kind |-> "SetBaudRate", data |-> <<f>>]
BitModeReq(mask, mode) == [kind |-> "SetBitMode", data |-> <<mask, mode>>]
WriteReq(bytes) == [kind |-> "Write", data |-> bytes]

\* The bytes and the control requests among reqs, in order.
WrittenBytes(reqs) ==
    Flatten([i \in 1..Len(reqs) |->
                IF reqs[i].kind = "Write" THEN reqs[i].data ELSE <<>>])
ControlReqs(reqs) == SelectSeq(reqs, LAMBDA q : q.kind # "Write")

\* FT232R.setDBusMaskLocked
setDBusMaskLocked(mask) ==
    IF mask # dmask THEN <<BitModeReq(mask, bitModeAsyncBitbang)>> ELSE <<>>

\* FT232R.dbusSyncGPIOOutLocked: the pin and level are not used.
dbusSyncGPIOOutLocked(n, l) == <<WriteReq(<<dvalue>>), WriteReq(<<dvalue>>)>>

\* FT232R.SPI
SyncSPI ==
    /\ dev = "FT232R"
    /\ IF usingSPI
       THEN /\ Returned("SPI", "err:inuse")
            /\ UNCHANGED holdsPort
       ELSE /\ Returned("SPI", "ok")
            /\ holdsPort' = TRUE
    /\ wire' = <<>> /\ ctl' = <<>> /\ rbuf' = <<>> /\ UNCHANGED rxq
    /\ UNCHANGED <<dev, line, kern, cbus, mu, thr, usingSPI, usingI2C, maxFreq, conn, dbus, pullUp, dmask,
                   dvalue, hwClock, holdsConn, holdsBus>>

\* spiSyncPort.Connect
SyncConnect(f, m, bits, fails) ==
    LET fc == ClampSpeed(f, ft232rMaxSpeed \div 2)
        mf == ModeFlags(m)
        c1 == [conn EXCEPT !.noCS = mf.noCS, !.halfDuplex = mf.halfDuplex,
                           !.lsbFirst = mf.lsbFirst]
        c2 == [c1 EXCEPT !.edgeInvert = BitAnd(mf.rest, 1) # 0,
                         !.clkActiveLow = BitAnd(mf.rest, 2) # 0]
        needSpeed == maxFreq = 0 \/ fc < maxFreq
        mask == BitOr(syncMosi + syncClk + syncCs, BitAnd(dmask, 240))
        speed == IF needSpeed THEN <<BaudReq(fc * 2)>> ELSE <<>>
        reqs == speed \o setDBusMaskLocked(mask)
                \o (IF ~c2.noCS THEN dbusSyncGPIOOutLocked(3, TRUE) ELSE <<>>)
                \o (IF c2.clkActiveLow THEN dbusSyncGPIOOutLocked(2, TRUE)
                    ELSE <<>>)
        nf == FirstFail(Len(reqs), fails)
    IN
    /\ dev = "FT232R" /\ holdsPort
    /\ rbuf' = <<>> /\ UNCHANGED rxq
    /\ UNCHANGED <<dev, line, kern, cbus, mu, thr, usingI2C, dbus, pullUp, dvalue, holdsPort, holdsBus>>
    /\ IF SpeedError(f, ft232rMaxSpeed \div 2)
       THEN /\ Returned("Connect", "err:speed") /\ UNCHANGED holdsConn
            /\ wire' = <<>> /\ ctl' = <<>>
            /\ UNCHANGED <<usingSPI, maxFreq, conn, dmask, hwClock>>
       ELSE IF BitsError(bits)
       THEN /\ Returned("Connect", "err:bits") /\ UNCHANGED holdsConn
            /\ wire' = <<>> /\ ctl' = <<>>
            /\ UNCHANGED <<usingSPI, maxFreq, conn, dmask, hwClock>>
       ELSE IF mf.halfDuplex
       THEN /\ Returned("Connect", "err:halfduplex") /\ UNCHANGED holdsConn
            /\ conn' = c1
            /\ wire' = <<>> /\ ctl' = <<>>
            /\ UNCHANGED <<usingSPI, maxFreq, dmask, hwClock>>
       ELSE IF mf.rest < 0 \/ mf.rest > 3
       THEN /\ Returned("Connect", "err:mode") /\ UNCHANGED holdsConn
            /\ conn' = c1
            /\ wire' = <<>> /\ ctl' = <<>>
            /\ UNCHANGED <<usingSPI, maxFreq, dmask, hwClock>>
       ELSE /\ conn' = c2
            /\ \E acc \in {SubSeq(reqs, 1, nf - 1)} :
                   wire' = WrittenBytes(acc) /\ ctl' = ControlReqs(acc)
            /\ maxFreq' = IF needSpeed /\ nf > 1 THEN fc ELSE maxFreq
            /\ hwClock' = IF needSpeed /\ nf > 1 THEN fc * 2 ELSE hwClock
            /\ dmask' = IF nf > Len(speed) + 1 THEN mask ELSE dmask
            /\ IF nf > Len(reqs)
               THEN /\ usingSPI' = TRUE
                    /\ Returned("Connect", "ok")
                    /\ holdsConn' = TRUE
               ELSE /\ UNCHANGED usingSPI
                    /\ Returned("Connect", "err:io") /\ UNCHANGED holdsConn

\* spiSyncPort.LimitSpeed
SyncLimitSpeed(f, fails) ==
    /\ dev = "FT232R" /\ holdsPort
    /\ wire' = <<>> /\ rbuf' = <<>> /\ UNCHANGED rxq
    /\ UNCHANGED <<dev, line, kern, cbus, mu, thr, usingSPI, usingI2C, conn, dbus, pullUp, dmask, dvalue,
                   holdsPort, holdsConn, holdsBus>>
    /\ IF f > GigaHertz \/ f < 100 * Hertz
       THEN /\ Returned("LimitSpeed", "err:speed")
            /\ ctl' = <<>>
            /\ UNCHANGED <<maxFreq, hwClock>>
       ELSE /\ Returned("LimitSpeed", "ok")
            /\ IF (maxFreq # 0 /\ maxFreq <= f) \/ f * 2 >= GigaHertz
                  \/ ~Ok(1, fails)
               THEN /\ ctl' = <<>>
                    /\ UNCHANGED <<maxFreq, hwClock>>
               ELSE /\ ctl' = <<BaudReq(f * 2)>>
                    /\ maxFreq' = f
                    /\ hwClock' = f * 2

\* spiSyncPort.Close
SyncClose ==
    /\ dev = "FT232R" /\ holdsPort
    /\ usingSPI' = FALSE
    /\ maxFreq' = 0
    /\ conn' = NoConn
    /\ Returned("SPIClose", "ok")
    /\ wire' = <<>> /\ ctl' = <<>> /\ rbuf' = <<>> /\ UNCHANGED rxq
    /\ UNCHANGED <<dev, line, kern, cbus, mu, thr, usingI2C, dbus, pullUp, dmask, dvalue, hwClock,
                   holdsPort, holdsConn, holdsBus>>

-----------------------------------------------------------------------------
(* SPI transfers over the FT232R in bit-bang.                              *)

\* The chunking of FT232R.txLocked when only writing: chunk is 128 for the
\* first write and 64 after it.
RECURSIVE txWriteOnly(_, _)
txWriteOnly(w, chunk) ==
    IF Len(w) = 0 THEN <<>>
    ELSE <<WriteEv(SubSeq(w, 1, Min(Len(w), chunk)))>>
         \o txWriteOnly(SubSeq(w, Min(Len(w), chunk) + 1, Len(w)), 64)

\* The chunking of FT232R.txLocked when only reading: it writes the cached
\* value to clock every sample in.
RECURSIVE txReadOnly(_, _, _)
txReadOnly(v, roff, rlen) ==
    IF rlen = 0 THEN <<>>
    ELSE <<WriteEv([i \in 1..Min(rlen, 64) |-> v]),
           ReadEv(1, roff, Min(rlen, 64))>>
         \o txReadOnly(v, roff + Min(rlen, 64), rlen - Min(rlen, 64))

\* The loop of FT232R.txLocked when reading and writing: read, then write
\* one chunk ahead, until the read buffer is full.
RECURSIVE txReadWrite(_, _, _)
txReadWrite(w, roff, rlen) ==
    IF rlen = 0 THEN <<>>
    ELSE <<ReadEv(1, roff, Min(rlen, 64))>>
         \o (IF Len(w) # 0 THEN <<WriteEv(SubSeq(w, 1, Min(Len(w), 64)))>>
             ELSE <<>>)
         \o txReadWrite(SubSeq(w, Min(Len(w), 64) + 1, Len(w)),
                        roff + Min(rlen, 64), rlen - Min(rlen, 64))

\* FT232R.txLocked: what it does with the device for a write buffer w and a
\* read buffer of rlen bytes.
txLocked(w, rlen, v) ==
    IF Len(w) = 0 THEN txReadOnly(v, 0, rlen)
    ELSE IF rlen = 0 THEN txWriteOnly(w, 128)
    ELSE <<WriteEv(SubSeq(w, 1, Min(Len(w), 128)))>>
         \o txReadWrite(SubSeq(w, Min(Len(w), 128) + 1, Len(w)), 0, rlen)

\* The line levels spiSyncConn.TxPackets derives from the connection.
syncLevels(c) ==
    LET csActive == BitAnd(BitAnd(dvalue, dmask), 240)
        csIdle0 == IF ~c.noCS THEN BitOr(csActive, syncCs) ELSE csActive
        low == csActive
        high == BitOr(csActive, syncClk)
    IN  [csIdle |-> IF c.clkActiveLow THEN BitOr(csIdle0, syncClk)
                    ELSE csIdle0,
         clkIdle |-> IF c.clkActiveLow THEN high ELSE low,
         clkActive |-> IF c.clkActiveLow THEN low ELSE high]

\* The two samples spiSyncConn.TxPackets writes for bit j (from 0) of byte b.
syncBit(b, j, c, lv) ==
    LET bit == IF (IF ~c.lsbFirst THEN Bit(b, 7 - j) ELSE Bit(b, j)) # 0
               THEN syncMosi ELSE 0
    IN  IF ~c.edgeInvert
        THEN <<BitOr(lv.clkIdle, bit), BitOr(lv.clkActive, bit)>>
        ELSE <<BitOr(lv.clkActive, bit), BitOr(lv.clkIdle, bit)>>

\* The samples for the bytes of one write buffer.
syncBytes(w, c, lv) ==
    Flatten([q \in 1..(8 * Len(w)) |->
                syncBit(w[((q - 1) \div 8) + 1], (q - 1) % 8, c, lv)])

\* The write buffer spiSyncConn.TxPackets builds for the whole packet list.
syncExpand(pkts, c) ==
    LET lv == syncLevels(c)
    IN  <<lv.csIdle, lv.clkIdle, lv.clkIdle, lv.clkIdle, lv.clkIdle>>
        \o Flatten([k \in 1..Len(pkts) |-> syncBytes(pkts[k].W, c, lv)])
        \o <<lv.clkIdle, lv.clkIdle, lv.clkIdle, lv.clkIdle, lv.csIdle>>

\* Length of the read buffer spiSyncConn.TxPackets allocates.
RECURSIVE SumLen(_, _)
SumLen(pkts, k) ==
    IF k = 0 THEN 0 ELSE SumLen(pkts, k - 1) + Len(pkts[k].R)
syncTotalR(pkts) ==
    IF SumLen(pkts, Len(pkts)) # 0
    THEN 2 * 8 * SumLen(pkts, Len(pkts)) + 10
    ELSE 0

\* An extraction that always takes the first bit read as the top bit.
syncExtractMSBOnly(re, i, c) ==
    LET on(j) == BitAnd(re[5 + i * 8 * 2 + j * 2 + 1 + 1], 1) * 2 # 0
    IN  (IF on(0) THEN 128 ELSE 0) + (IF on(1) THEN 64 ELSE 0)
        + (IF on(2) THEN 32 ELSE 0) + (IF on(3) THEN 16 ELSE 0)
        + (IF on(4) THEN 8 ELSE 0) + (IF on(5) THEN 4 ELSE 0)
        + (IF on(6) THEN 2 ELSE 0) + (IF on(7) THEN 1 ELSE 0)

\* Byte i (from 0) of a read buffer as spiSyncConn.TxPackets extracts it from
\* the samples re: the test is re[..]&byte(1)<<1 != 0, which Go groups as
\* (re[..] & 1) << 1.
syncExtract(re, i, c) ==
    LET on(j) == BitAnd(re[5 + i * 8 * 2 + j * 2 + 1 + 1], 1) * 2 # 0
        weight(j) == IF ~c.lsbFirst THEN 2 ^ (7 - j) ELSE 2 ^ j
    IN  (IF on(0) THEN weight(0) ELSE 0) + (IF on(1) THEN weight(1) ELSE 0)
        + (IF on(2) THEN weight(2) ELSE 0) + (IF on(3) THEN weight(3) ELSE 0)
        + (IF on(4) THEN weight(4) ELSE 0) + (IF on(5) THEN weight(5) ELSE 0)
        + (IF on(6) THEN weight(6) ELSE 0) + (IF on(7) THEN weight(7) ELSE 0)

\* spiSyncConn.TxPackets. samples is what the chip, which setDBusMaskLocked
\* leaves in asynchronous bit-bang, returns to the reads, in order.
SyncTxPackets(pkts, samples, fails) ==
    /\ dev = "FT232R" /\ holdsConn
    /\ ctl' = <<>>
    /\ UNCHANGED <<dev, line, kern, cbus, mu, thr, usingSPI, usingI2C, maxFreq, conn, dbus, pullUp, dmask,
                   dvalue, hwClock, holdsPort, holdsConn, holdsBus, rxq>>
    /\ IF VerifyPackets(pkts) # "none"
       THEN /\ Returned("TxPackets", VerifyPackets(pkts))
            /\ wire' = <<>>
            /\ rbuf' = [k \in 1..Len(pkts) |-> pkts[k].R]
       ELSE \E we \in {syncExpand(pkts, conn)} :
            \E evs \in {txLocked(we, syncTotalR(pkts), dvalue)} :
            \E done \in {Executed(evs, fails)} :
            \E re \in {ReadBuffers(<<[R |-> [i \in 1..syncTotalR(pkts) |-> 0]]>>,
                                   done, samples)[1]} :
                /\ wire' = EventBytes(done)
                /\ IF WriteRejected(evs, fails)
                   THEN /\ rbuf' = [k \in 1..Len(pkts) |-> pkts[k].R]
                        /\ Returned("TxPackets", "err:io")
                   ELSE /\ rbuf' = [k \in 1..Len(pkts) |->
                                      [i \in 1..Len(pkts[k].R) |->
                                          syncExtract(re, i - 1, conn)]]
                        /\ Returned("TxPackets", "ok")

\* spiSyncConn.Tx: one packet {W: w, R: r} handed to TxPackets.
SyncTx(w, r, samples, fails) ==
    \E smp \in {samples} :
        SyncTxPackets(<<[W |-> w, R |-> r, KeepCS |-> FALSE,
                         BitsPerWord |-> 0]>>, smp, fails)

-----------------------------------------------------------------------------
(* I2C engine: setup and teardown.                                         *)

i2cSCL == 1
i2cSDAOut == 2
i2cSDAIn == 4

\* The engine clock setupI2C asks for: 400kHz in 3-phase clocking.
I2CDefaultClk == ((((30 * MegaHertz) \div (400 * KiloHertz)) - 1) * 2) \div 3

\* The command setupI2C writes.
SetupI2CCmd(pu) ==
    <<clock3Phase, clock30MHz, Byte(I2CDefaultClk), Byte(I2CDefaultClk \div 256)>>
    \o (IF ~pu THEN <<dataTristate, 7, 0>> ELSE <<>>)

\* The command stopI2C writes ("Resets to 30MHz").
StopI2CCmd(pu) ==
    <<clock2Phase, clock30MHz, 0, 0>>
    \o (IF ~pu THEN <<dataTristate, 0, 0>> ELSE <<>>)

\* i2cBus.setI2CLinesIdle: the cache it leaves and the command it writes.
I2CIdleMask == 255 - (i2cSCL + i2cSDAOut + i2cSDAIn)

LinesIdleCache(d) ==
    [direction |-> BitOr(BitAnd(d.direction, I2CIdleMask), i2cSCL + i2cSDAOut),
     value |-> BitAnd(d.value, I2CIdleMask)]

LinesIdleCmd(d) ==
    <<gpioSetD, BitOr(LinesIdleCache(d).value, i2cSCL + i2cSDAOut),
      LinesIdleCache(d).direction>>

\* FT232H.I2C, with i2cBus.setupI2C and, on its failure, i2cBus.stopI2C.
I2C(pull, fails) ==
    /\ dev = "FT232H"
    /\ ctl' = <<>> /\ rbuf' = <<>> /\ UNCHANGED rxq
    /\ UNCHANGED <<dev, line, kern, cbus, mu, thr, usingSPI, maxFreq, conn, dmask, dvalue, holdsPort, holdsConn>>
    /\ IF pull \notin {"PullUp", "Float"}
       THEN /\ Returned("I2C", "err:pull")
            /\ wire' = <<>>
            /\ UNCHANGED <<usingI2C, dbus, pullUp, hwClock, holdsBus>>
       ELSE IF usingI2C \/ usingSPI
       THEN /\ Returned("I2C", "err:inuse")
            /\ wire' = <<>>
            /\ UNCHANGED <<usingI2C, dbus, pullUp, hwClock, holdsBus>>
       ELSE IF pull = "PullUp"
       THEN \* setupI2C refuses; I2C then runs stopI2C and drops its error.
            /\ Returned("I2C", "err:pullup")
            /\ usingI2C' = FALSE
            /\ wire' = IF Ok(1, fails) THEN StopI2CCmd(pullUp) ELSE <<>>
            /\ hwClock' = IF Ok(1, fails) THEN 30 * MegaHertz ELSE hwClock
            /\ UNCHANGED <<dbus, pullUp, holdsBus>>
       ELSE IF ~Ok(1, fails)
       THEN \* the setup write fails: stopI2C is request 2
            /\ Returned("I2C", "err:io")
            /\ usingI2C' = FALSE
            /\ wire' = IF Ok(2, fails) THEN StopI2CCmd(pullUp) ELSE <<>>
            /\ hwClock' = IF Ok(2, fails) THEN 30 * MegaHertz ELSE hwClock
            /\ UNCHANGED <<dbus, pullUp, holdsBus>>
       ELSE IF ~Ok(2, fails)
       THEN \* setup accepted, the lines-idle write fails: stopI2C is request 3
            /\ Returned("I2C", "err:io")
            /\ usingI2C' = FALSE
            /\ pullUp' = FALSE
            /\ dbus' = LinesIdleCache(dbus)
            /\ wire' = SetupI2CCmd(pullUp)
                       \o (IF Ok(3, fails) THEN StopI2CCmd(FALSE) ELSE <<>>)
            /\ hwClock' = IF Ok(3, fails) THEN 30 * MegaHertz
                          ELSE (30 * MegaHertz) \div (I2CDefaultClk + 1)
            /\ UNCHANGED holdsBus
       ELSE /\ Returned("I2C", "ok")
            /\ usingI2C' = TRUE
            /\ pullUp' = FALSE
            /\ dbus' = LinesIdleCache(dbus)
            /\ wire' = SetupI2CCmd(pullUp) \o LinesIdleCmd(dbus)
            /\ hwClock' = (30 * MegaHertz) \div (I2CDefaultClk + 1)
            /\ holdsBus' = TRUE

\* i2cBus.Close
I2CClose(fails) ==
    /\ dev = "FT232H" /\ holdsBus
    /\ usingI2C' = FALSE
    /\ IF Ok(1, fails)
       THEN /\ wire' = StopI2CCmd(pullUp)
            /\ hwClock' = 30 * MegaHertz
            /\ Returned("I2CClose", "ok")
       ELSE /\ wire' = <<>>
            /\ UNCHANGED hwClock
            /\ Returned("I2CClose", "err:io")
    /\ ctl' = <<>> /\ rbuf' = <<>> /\ UNCHANGED rxq
    /\ UNCHANGED <<dev, line, kern, cbus, mu, thr, usingSPI, maxFreq, conn, dbus, pullUp, dmask, dvalue,
                   holdsPort, holdsConn, holdsBus>>

\* i2cBus.SetSpeed
SetSpeed(f, fails) ==
    /\ dev = "FT232H" /\ holdsBus
    /\ ctl' = <<>> /\ rbuf' = <<>> /\ UNCHANGED rxq
    /\ UNCHANGED <<dev, line, kern, cbus, mu, thr, usingSPI, usingI2C, maxFreq, conn, dbus, pullUp, dmask,
                   dvalue, holdsPort, holdsConn, holdsBus>>
    /\ IF f > 10 * MegaHertz \/ f < 100 * Hertz
       THEN /\ Returned("SetSpeed", "err:speed")
            /\ wire' = <<>>
            /\ UNCHANGED hwClock
       ELSE LET clk == MPSSEClock((f * 2) \div 3) IN
            IF ~clk.err /\ Ok(1, fails)
            THEN /\ wire' = clk.cmd
                 /\ hwClock' = clk.rate
                 /\ Returned("SetSpeed", "ok")
            ELSE /\ wire' = <<>>
                 /\ UNCHANGED hwClock
                 /\ Returned("SetSpeed", "err:io")

-----------------------------------------------------------------------------
(* I2C engine: transactions.                                               *)

\* The command i2cBus.setI2CStart writes.
setI2CStart(d) ==
    Repeat(4, <<gpioSetD, BitOr(d.value, i2cSCL), d.direction>>)
    \o Repeat(3, <<gpioSetD, d.value, d.direction>>)

\* The command i2cBus.setI2CStop writes.
setI2CStop(d) ==
    Repeat(4, <<gpioSetD, d.value, d.direction>>)
    \o Repeat(4, <<gpioSetD, BitOr(d.value, i2cSCL), d.direction>>)
    \o Repeat(4, <<gpioSetD, BitOr(d.value, i2cSCL + i2cSDAOut), d.direction>>)

\* The command i2cBus.writeBytes writes for the byte c.
writeBytesCmd(d, c) ==
    <<BitOr(dataOut, dataOutFall), 0, 0, c,
      gpioSetD, BitOr(d.value, i2cSCL + i2cSDAOut), d.direction,
      BitOr(dataIn, dataBit), 0,
      flush>>

\* The command i2cBus.readBytes writes for one byte; last: it is the final one.
readBytesCmd(d, last) ==
    <<BitOr(dataIn, dataBit), 7,
      BitOr(BitOr(dataOut, dataOutFall), dataBit), 0, IF last THEN 128 ELSE 0,
      gpioSetD, BitOr(d.value, i2cSCL + i2cSDAOut), d.direction,
      flush>>

\* i2cBus.writeBytes takes a byte read back with bit 0 clear as a NAK.
gotNAK(b) == BitAnd(b, 1) = 0

\* The position, among the address byte and the bytes of w, of the first
\* byte writeBytes reports as not acknowledged; 0 if there is none.
\* acks[j] is the byte the device returns for the j-th acknowledgement read.
FirstNAK(w, acks) ==
    IF \E j \in 1..(1 + Len(w)) : gotNAK(acks[j])
    THEN CHOOSE j \in 1..(1 + Len(w)) :
             gotNAK(acks[j]) /\ \A k \in 1..(j - 1) : ~gotNAK(acks[k])
    ELSE 0

\* i2cBus.readBytes reads byte i (from 0) into r[i:1]: one byte for i = 0,
\* nothing for i = 1, and the slice expression panics from i = 2 on.
readBytesPanics(n) == n >= 3
readBytesIssued(n) == IF readBytesPanics(n) THEN 3 ELSE n

\* i2cBus.Tx. r0 is the caller's read buffer before the call, data[i] the
\* i-th byte the device sends in the read phase.
Tx(addr, w, r0, acks, data, fails) ==
    LET n == Len(r0)
        nak == FirstNAK(w, acks)
        nw == IF nak = 0 THEN 1 + Len(w) ELSE nak
        nr == IF nak = 0 THEN readBytesIssued(n) ELSE 0
        done == nak = 0 /\ ~readBytesPanics(n)
        out == <<Byte(addr)>> \o w
        \* the commands Tx hands to h.Write, one request each
        cmds == <<setI2CStart(dbus)>>
                \o [j \in 1..nw |-> writeBytesCmd(dbus, out[j])]
                \o [i \in 1..nr |-> readBytesCmd(dbus, i = n)]
                \o (IF done
                    THEN <<setI2CStop(dbus), LinesIdleCmd(dbus)>>
                    ELSE <<>>)
        total == 1 + nw + nr + (IF done THEN 2 ELSE 0)
        nf == FirstFail(total, fails)
        \* how many read commands the device accepted
        nrOk == IF nf - 1 - (1 + nw) < 0 THEN 0
                ELSE IF nf - 1 - (1 + nw) > nr THEN nr
                ELSE nf - 1 - (1 + nw)
    IN
    /\ dev = "FT232H" /\ holdsBus
    /\ \E acc \in {SubSeq(cmds, 1, nf - 1)} : wire' = Flatten(acc)
    /\ ctl' = <<>>
    /\ rbuf' = [i \in 1..n |-> IF i = 1 /\ nrOk >= 1 THEN data[1] ELSE r0[i]]
    \* writeBytes flushes the queue; readBytes leaves what it does not read
    /\ rxq' = IF nf = 1 THEN rxq ELSE [i \in 1..(nrOk - 1) |-> data[i + 1]]
    /\ dbus' = IF done /\ nf >= total THEN LinesIdleCache(dbus) ELSE dbus
    /\ Returned("Tx", IF nf <= total THEN "err:io"
                      ELSE IF nak # 0 THEN "err:nak"
                      ELSE IF readBytesPanics(n) THEN "panic"
                      ELSE "ok")
    /\ UNCHANGED <<dev, line, kern, cbus, mu, thr, usingSPI, usingI2C, maxFreq, conn, pullUp, dmask,
                   dvalue, hwClock, holdsPort, holdsConn, holdsBus>>

\* Inputs of Tx.
MaxWrite == 2
MaxRead == 3
WByte(i) == (66 + 85 * i) % 256
DevByte(i) == (29 + 61 * i) % 256
AddrInputs == {160}
WInputs == {[i \in 1..k |-> WByte(i)] : k \in 0..MaxWrite}
RInputs == {[i \in 1..k |-> 0] : k \in 0..MaxRead}
AckInputs == [1..(1 + MaxWrite) -> {0, 1}]
DataInputs == {[i \in 1..(MaxRead + 1) |-> DevByte(i)]}

PullInputs == {"Float", "PullUp", "PullDown"}

Next ==
    \/ SPI
    \/ \E a \in ConnectInputs, fails \in FailSets :
           Connect(a[1], a[2], a[3], fails)
    \/ \E f \in FreqInputs, fails \in FailSets : LimitSpeed(f, fails)
    \/ SPIClose
    \/ \E pull \in PullInputs, fails \in FailSets : I2C(pull, fails)
    \/ \E fails \in FailSets : I2CClose(fails)
    \/ \E f \in I2CFreqInputs, fails \in FailSets : SetSpeed(f, fails)
    \/ SyncSPI
    \/ \E a \in ConnectInputs, fails \in FailSets :
           SyncConnect(a[1], a[2], a[3], fails)
    \/ \E f \in FreqInputs, fails \in FailSets : SyncLimitSpeed(f, fails)
    \/ SyncClose

Spec == Init /\ [][Next]_vars

\* The SPI ports of both chips, with the I2C bus that shares the FT232H's pins.
NextConnect ==
    \/ SPI
    \/ \E a \in ConnectInputs, fails \in FailSets :
           Connect(a[1], a[2], a[3], fails)
    \/ \E f \in FreqInputs, fails \in FailSets : LimitSpeed(f, fails)
    \/ SPIClose
    \/ \E fails \in FailSets : I2C("Float", fails)
    \/ \E fails \in FailSets : I2CClose(fails)
    \/ SyncSPI
    \/ \E a \in ConnectInputs, fails \in FailSets :
           SyncConnect(a[1], a[2], a[3], fails)
    \/ \E f \in FreqInputs, fails \in FailSets : SyncLimitSpeed(f, fails)
    \/ SyncClose

SpecConnect == Init /\ [][NextConnect]_vars

\* One FT232H.
InitFT232H == Init /\ dev = "FT232H"

\* One FT232H used as an I2C bus.
NextI2C ==
    \/ \E pull \in PullInputs, fails \in FailSets : I2C(pull, fails)
    \/ \E fails \in FailSets : I2CClose(fails)
    \/ \E addr \in AddrInputs, w \in WInputs, r0 \in RInputs,
          acks \in AckInputs, data \in DataInputs, fails \in FailSets :
           Tx(addr, w, r0, acks, data, fails)

SpecI2C == InitFT232H /\ [][NextI2C]_vars

\* One FT232H or FT232R used as an SPI port.
Pkt(w, r, keep, bits) == [W |-> w, R |-> r, KeepCS |-> keep, BitsPerWord |-> bits]
ValidPackets ==
    {Pkt(<<165>>, <<>>, FALSE, 0), Pkt(<<>>, <<17>>, FALSE, 8),
     Pkt(<<60>>, <<0>>, FALSE, 8), Pkt(<<>>, <<>>, FALSE, 0)}
BadPackets ==
    {Pkt(<<165>>, <<>>, TRUE, 8), Pkt(<<165>>, <<>>, FALSE, 16),
     Pkt(<<60>>, <<0>>, FALSE, 4), Pkt(<<1, 2>>, <<0>>, FALSE, 8)}
PktListInputs ==
    {<<>>, <<Pkt(<<165>>, <<>>, FALSE, 0), Pkt(<<60>>, <<0>>, FALSE, 8)>>,
     <<Pkt(<<60>>, <<0>>, FALSE, 8), Pkt(<<>>, <<17>>, FALSE, 8)>>}
    \cup {<<p>> : p \in ValidPackets \cup BadPackets}
    \cup {<<Pkt(<<60>>, <<0>>, FALSE, 8), b>> : b \in BadPackets}
    \cup {<<b, Pkt(<<165>>, <<>>, FALSE, 0)>> : b \in BadPackets}
    \cup {<<Pkt(<<165>>, <<>>, FALSE, 0), Pkt(<<60>>, <<0>>, FALSE, 8), b>> :
             b \in BadPackets}
MisoInputs == {[i \in 1..4 |-> (90 + 77 * i) % 256]}
SampleInputs == {[i \in 1..64 |-> (5 * i) % 16]}
SPIConnectInputs ==
    {<<7 * MegaHertz, 0, 8>>, <<7 * MegaHertz, 1 + LSBFirst, 8>>,
     <<7 * MegaHertz, 2, 8>>, <<7 * MegaHertz, 3 + NoCS, 8>>}

NextSPI ==
    \/ SPI
    \/ \E a \in SPIConnectInputs, fails \in FailSets :
           Connect(a[1], a[2], a[3], fails)
    \/ SPIClose
    \/ \E pkts \in PktListInputs, data \in MisoInputs, fails \in FailSets :
           TxPackets(pkts, data, fails)
    \/ SyncSPI
    \/ \E a \in SPIConnectInputs, fails \in FailSets :
           SyncConnect(a[1], a[2], a[3], fails)
    \/ SyncClose
    \/ \E pkts \in PktListInputs, samples \in SampleInputs,
          fails \in FailSets :
           SyncTxPackets(pkts, samples, fails)

SpecSPI == Init /\ [][NextSPI]_vars

\* One FT232H used for single SPI transfers, up to the longest one that fits
\* the first command buffer after the 30 bytes of chip-select framing.
MaxTxLen == 3
TxFits == mpsseBufSize - 3 - 30
TxLenInputs == (0..MaxTxLen) \cup {TxFits, TxFits + 1}
TxByte(i) == (165 + 37 * i) % 256
TxMisoByte(i) == (90 + 77 * i) % 256
TxConnectInputs ==
    {<<7 * MegaHertz, 0, 8>>, <<7 * MegaHertz, LSBFirst, 8>>,
     <<7 * MegaHertz, 1, 8>>, <<7 * MegaHertz, 2 + NoCS, 8>>}

NextTx ==
    \/ SPI
    \/ \E a \in TxConnectInputs, fails \in FailSets :
           Connect(a[1], a[2], a[3], fails)
    \/ SPIClose
    \/ \E L \in TxLenInputs, full \in BOOLEAN, fails \in FailSets :
           SPITx([i \in 1..L |-> TxByte(i)],
                 IF full THEN [i \in 1..L |-> 0] ELSE <<>>,
                 [i \in 1..L |-> TxMisoByte(i)], fails)

SpecTx == InitFT232H /\ [][NextTx]_vars

\* One FT232R whose MISO pin (D1) is wired to its MOSI pin (D0): every sample
\* read back carries on D1 the level driven on D0.
Loopback(we) ==
    [k \in 1..Len(we) |->
        IF Bit(we[k], 0) = 1 THEN BitOr(we[k], syncMiso)
        ELSE AndNot(we[k], syncMiso)]

MaxLoopLen == 2
LoopBytes == <<0, 255, 1, 128, 29>>
LoopInputs ==
    {[i \in 1..n |-> LoopBytes[((i + k) % 5) + 1]] :
        n \in 0..MaxLoopLen, k \in 0..4}
LoopConnectInputs ==
    {<<1 * MegaHertz, 0, 8>>, <<1 * MegaHertz, LSBFirst, 8>>,
     <<1 * MegaHertz, 1, 8>>, <<1 * MegaHertz, 3 + LSBFirst + NoCS, 8>>}

NextLoop ==
    \/ SyncSPI
    \/ \E a \in LoopConnectInputs, fails \in FailSets :
           SyncConnect(a[1], a[2], a[3], fails)
    \/ SyncClose
    \/ \E b \in LoopInputs, fails \in FailSets :
           SyncTx(b, [i \in 1..Len(b) |-> 0],
                  Loopback(syncExpand(<<[W |-> b]>>, conn)), fails)

\* A freshly opened FT232R.
InitFT232R == Init /\ dev = "FT232R"

SpecLoop == InitFT232R /\ [][NextLoop]_vars

\* One FT232H whose SPI clock is set over the whole supported range.
ClockSteps == 120
ClockInputs ==
    {100 * Hertz, 458 * Hertz}
    \cup {k * 250 * KiloHertz : k \in 1..ClockSteps}

NextClock ==
    \/ SPI
    \/ \E f \in ClockInputs : LimitSpeed(f, {})
    \/ SPIClose

SpecClock == InitFT232H /\ [][NextClock]_vars

-----------------------------------------------------------------------------
(* The two 8-pin groups of an FT232H: gpiosMPSSE and the group calls.      *)

gpioSetC == 130
gpioReadD == 129
gpioReadC == 131

Groups == {"D", "C"}

\* handle.MPSSECBus
MPSSECBus(mask, value) == <<gpioSetC, value, mask>>

\* The group-set command gpiosMPSSE sends for its cache c.
GroupSetCmd(grp, c) ==
    IF grp = "C" THEN MPSSECBus(c.direction, c.value)
    ELSE MPSSEDBus(c.direction, c.value)

\* The read command of handle.MPSSECBusRead / handle.MPSSEDBusRead.
GroupReadCmd(grp) == <<(IF grp = "C" THEN gpioReadC ELSE gpioReadD), flush>>

\* The cache of a group.
Cache(grp) == IF grp = "C" THEN cbus ELSE dbus

\* Assignment of c to the cache of a group.
SetCache(grp, c) ==
    IF grp = "C" THEN cbus' = c /\ UNCHANGED dbus
    ELSE dbus' = c /\ UNCHANGED cbus

\* What gpiosMPSSE.in does to its cache before it writes.
gpioInCache(c, n) == [c EXCEPT !.direction = AndNot(@, 2 ^ n)]

\* A cache update that forgets the level.
gpioOutCacheDirectionOnly(c, n, l) == [c EXCEPT !.direction = BitOr(@, 2 ^ n)]

\* What gpiosMPSSE.out does to its cache before it writes.
gpioOutCache(c, n, l) ==
    [direction |-> BitOr(c.direction, 2 ^ n),
     value |-> IF l THEN BitOr(c.value, 2 ^ n) ELSE AndNot(c.value, 2 ^ n)]

\* What a group call leaves alone.
GroupFrame ==
    /\ ctl' = <<>> /\ rbuf' = <<>>
    /\ UNCHANGED <<dev, line, kern, mu, thr, usingSPI, usingI2C, maxFreq, conn, pullUp,
                   dmask, dvalue, hwClock, holdsPort, holdsConn, holdsBus, rxq>>

\* gpioMPSSE.In with the default pull and no edge -> gpiosMPSSE.in
PinIn(grp, n, fails) ==
    /\ dev = "FT232H"
    /\ GroupFrame
    /\ \E c \in {gpioInCache(Cache(grp), n)} :
        /\ SetCache(grp, c)
        /\ IF Ok(1, fails)
           THEN wire' = GroupSetCmd(grp, c) /\ Returned("In", "ok")
           ELSE wire' = <<>> /\ Returned("In", "err:io")

\* gpioMPSSE.Out -> gpiosMPSSE.out
PinOut(grp, n, l, fails) ==
    /\ dev = "FT232H"
    /\ GroupFrame
    /\ \E c \in {gpioOutCache(Cache(grp), n, l)} :
        /\ SetCache(grp, c)
        /\ IF Ok(1, fails)
           THEN wire' = GroupSetCmd(grp, c) /\ Returned("Out", "ok")
           ELSE wire' = <<>> /\ Returned("Out", "err:io")

\* gpioMPSSE.Read -> gpiosMPSSE.read; pins is what the device answers. The
\* call has no error result: it reports the level of pin n in what it read.
PinRead(grp, n, pins, fails) ==
    /\ dev = "FT232H"
    /\ GroupFrame
    /\ IF Ok(1, fails)
       THEN /\ wire' = GroupReadCmd(grp)
            /\ SetCache(grp, [Cache(grp) EXCEPT !.value = pins])
            /\ Returned("Read", IF Bit(pins, n) = 1 THEN "High" ELSE "Low")
       ELSE /\ wire' = <<>>
            /\ SetCache(grp, [Cache(grp) EXCEPT !.value = 0])
            /\ Returned("Read", "Low")

\* FT232H.DBus / FT232H.CBus
GroupWrite(grp, direction, value, fails) ==
    /\ dev = "FT232H"
    /\ GroupFrame
    /\ UNCHANGED <<dbus, cbus>>
    /\ IF Ok(1, fails)
       THEN /\ wire' = (IF grp = "C" THEN MPSSECBus(direction, value)
                        ELSE MPSSEDBus(direction, value))
            /\ Returned(grp \o "Bus", "ok")
       ELSE wire' = <<>> /\ Returned(grp \o "Bus", "err:io")

\* FT232H.DBusRead / FT232H.CBusRead
GroupRead(grp, pins, fails) ==
    /\ dev = "FT232H"
    /\ GroupFrame
    /\ UNCHANGED <<dbus, cbus>>
    /\ IF Ok(1, fails)
       THEN wire' = GroupReadCmd(grp) /\ Returned(grp \o "BusRead", "ok")
       ELSE wire' = <<>> /\ Returned(grp \o "BusRead", "err:io")

PinNumbers == {3, 5}
PinsInputs == {0, 165}
GroupInputs == {<<0, 0>>, <<255, 165>>}

\* The pin and group calls of one FT232H, and the buses that share D0~D3.
NextGPIO ==
    \/ \E grp \in Groups, n \in PinNumbers, fails \in FailSets :
           PinIn(grp, n, fails)
    \/ \E grp \in Groups, n \in PinNumbers, l \in BOOLEAN, fails \in FailSets :
           PinOut(grp, n, l, fails)
    \/ \E grp \in Groups, n \in PinNumbers, pins \in PinsInputs,
          fails \in FailSets :
           PinRead(grp, n, pins, fails)
    \/ \E grp \in Groups, dv \in GroupInputs, fails \in FailSets :
           GroupWrite(grp, dv[1], dv[2], fails)
    \/ \E grp \in Groups, pins \in PinsInputs, fails \in FailSets :
           GroupRead(grp, pins, fails)

SpecGPIO == InitFT232H /\ [][NextGPIO]_vars

-----------------------------------------------------------------------------
(* Reads against a device that stays silent: handle.ReadAll pass by pass.  *)

\* The deadline of context200ms, in milliseconds.
context200ms == 200

\* How long one pass of the loop of handle.ReadAll takes, in milliseconds.
PollTime == 100

\* ctx.Err() != nil: context.Background() never expires.
ctxErr(t) == t.ctx = "200ms" /\ t.elapsed >= context200ms

\* No goroutine is inside a call.
Quiet == mu = 0 /\ \A g \in Goroutines : thr[g].pc = "idle"

\* Goroutine g enters handle.ReadAll with context ctx on behalf of op.
EnterReadAll(g, op, grp, ctx) ==
    thr' = [thr EXCEPT ![g] = [pc |-> "ReadAll", op |-> op, grp |-> grp,
                               ctx |-> ctx, elapsed |-> 0, spin |-> 0]]

\* The events of a transfer before its first read.
BeforeFirstRead(evs) ==
    LET rp == SelectSeq([i \in 1..Len(evs) |-> i],
                        LAMBDA i : evs[i].kind = "Read")
    IN  SubSeq(evs, 1, rp[1] - 1)
HasRead(evs) == \E i \in 1..Len(evs) : evs[i].kind = "Read"

\* gpiosMPSSE.read up to the read of handle.MPSSEDBusRead/MPSSECBusRead.
StallRead(g, grp) ==
    /\ dev = "FT232H" /\ thr[g].pc = "idle"
    /\ wire' = GroupReadCmd(grp)
    /\ call' = [op |-> "Read", ret |-> "pending"]
    /\ EnterReadAll(g, "Read", grp, "200ms")
    /\ ctl' = <<>> /\ rbuf' = <<>>
    /\ UNCHANGED <<dev, line, kern, cbus, dbus, mu, usingSPI, usingI2C, maxFreq, conn,
                   pullUp, dmask, dvalue, hwClock, holdsPort, holdsConn,
                   holdsBus, rxq>>

\* spiMPSEEConn.TxPackets up to its first read.
StallTxPackets(g, pkts) ==
    /\ dev = "FT232H" /\ holdsConn /\ thr[g].pc = "idle" /\ mu = 0
    /\ VerifyPackets(pkts) = "none"
    /\ \E d \in {resetIdle(dbus, conn)} :
       \E evs \in {Flatten([k \in 1..Len(pkts) |->
                               mpssePacket(k, pkts[k], d, conn)])} :
           /\ HasRead(evs)
           /\ dbus' = d
           /\ wire' = EventBytes(BeforeFirstRead(evs))
    /\ mu' = g
    /\ call' = [op |-> "TxPackets", ret |-> "pending"]
    /\ EnterReadAll(g, "TxPackets", "", "background")
    /\ ctl' = <<>> /\ rbuf' = [k \in 1..Len(pkts) |-> pkts[k].R]
    /\ UNCHANGED <<dev, line, kern, cbus, usingSPI, usingI2C, maxFreq, conn, pullUp, dmask,
                   dvalue, hwClock, holdsPort, holdsConn, holdsBus, rxq>>

\* spiSyncConn.TxPackets up to the first read of FT232R.txLocked.
StallSyncTxPackets(g, pkts) ==
    /\ dev = "FT232R" /\ holdsConn /\ thr[g].pc = "idle" /\ mu = 0
    /\ VerifyPackets(pkts) = "none"
    /\ \E evs \in {txLocked(syncExpand(pkts, conn), syncTotalR(pkts), dvalue)} :
           /\ HasRead(evs)
           /\ wire' = EventBytes(BeforeFirstRead(evs))
    /\ mu' = g
    /\ call' = [op |-> "TxPackets", ret |-> "pending"]
    /\ EnterReadAll(g, "TxPackets", "", "background")
    /\ ctl' = <<>> /\ rbuf' = [k \in 1..Len(pkts) |-> pkts[k].R]
    /\ UNCHANGED <<dev, line, kern, cbus, dbus, usingSPI, usingI2C, maxFreq, conn, pullUp,
                   dmask, dvalue, hwClock, holdsPort, holdsConn, holdsBus, rxq>>

\* i2cBus.Tx up to the read of the acknowledge bit of the address byte.
StallTx(g, addr) ==
    /\ dev = "FT232H" /\ holdsBus /\ thr[g].pc = "idle" /\ mu = 0
    /\ wire' = setI2CStart(dbus) \o writeBytesCmd(dbus, Byte(addr))
    /\ mu' = g
    /\ call' = [op |-> "Tx", ret |-> "pending"]
    /\ EnterReadAll(g, "Tx", "", "background")
    /\ ctl' = <<>> /\ rbuf' = <<>>
    /\ UNCHANGED <<dev, line, kern, cbus, dbus, usingSPI, usingI2C, maxFreq, conn, pullUp,
                   dmask, dvalue, hwClock, holdsPort, holdsConn, holdsBus, rxq>>

\* One pass of the loop of handle.ReadAll while nothing is pending: either
\* the context is done and the call returns io.EOF, or handle.Read returns
\* (0, nil) and the loop goes round.
Poll(g) ==
    /\ thr[g].pc = "ReadAll"
    /\ UNCHANGED <<dev, line, kern, usingSPI, usingI2C, maxFreq, conn, pullUp, dmask,
                   dvalue, hwClock, holdsPort, holdsConn, holdsBus, wire, ctl,
                   rbuf, rxq>>
    /\ IF ctxErr(thr[g])
       THEN /\ call' = [op |-> thr[g].op, ret |-> "err:EOF"]
            /\ thr' = [thr EXCEPT ![g] = Idle]
            /\ mu' = IF mu = g THEN 0 ELSE mu
            /\ IF thr[g].op = "Read"
               THEN SetCache(thr[g].grp, [Cache(thr[g].grp) EXCEPT !.value = 0])
               ELSE UNCHANGED <<dbus, cbus>>
       ELSE /\ thr' = [thr EXCEPT ![g].elapsed =
                           IF thr[g].ctx = "200ms"
                           THEN Min(@ + PollTime, context200ms) ELSE 0,
                                ![g].spin = 1 - @]
            /\ UNCHANGED <<call, mu, dbus, cbus>>

StallPackets ==
    {<<Pkt(<<165>>, <<0>>, FALSE, 8)>>, <<Pkt(<<>>, <<0, 0>>, FALSE, 0)>>}
WaitConnectInputs ==
    {<<1 * MegaHertz, 0, 8>>, <<1 * MegaHertz, 3 + LSBFirst, 8>>,
     <<1 * MegaHertz, 1 + NoCS, 8>>}

\* Every call that waits for the device, against a device that never answers.
NextWait ==
    \/ Quiet /\ (SPI \/ SyncSPI)
    \/ Quiet /\ \E in \in WaitConnectInputs, fails \in FailSets :
                    \/ Connect(in[1], in[2], in[3], fails)
                    \/ SyncConnect(in[1], in[2], in[3], fails)
    \/ Quiet /\ \E fails \in FailSets : I2C("Float", fails)
    \/ Quiet /\ (SPIClose \/ SyncClose)
    \/ \E grp \in Groups : StallRead(1, grp)
    \/ \E pkts \in StallPackets : StallTxPackets(1, pkts)
    \/ \E pkts \in StallPackets : StallSyncTxPackets(1, pkts)
    \/ \E addr \in AddrInputs : StallTx(1, addr)
    \/ Poll(1)

\* The goroutine inside ReadAll keeps running.
SpecWait == Init /\ [][NextWait]_vars /\ WF_vars(Poll(1))

-----------------------------------------------------------------------------
(* Two goroutines on one FT232H, statement by statement.                   *)

\* Goroutine g moves to pc inside op.
At(g, pc, op, grp) ==
    thr' = [thr EXCEPT ![g] = [Idle EXCEPT !.pc = pc, !.op = op, !.grp = grp]]

\* spiMPSEEConn.TxPackets: s.f.mu.Lock() once the packets are verified.
LockTxPackets(g) ==
    /\ dev = "FT232H" /\ holdsConn /\ thr[g].pc = "idle"
    /\ mu = 0
    /\ mu' = g
    /\ At(g, "locked", "TxPackets", "")
    /\ UNCHANGED <<dev, line, kern, cbus, dbus, usingSPI, usingI2C, maxFreq, conn, pullUp,
                   dmask, dvalue, hwClock, holdsPort, holdsConn, holdsBus,
                   call, wire, ctl, rbuf, rxq>>

\* spiMPSEEConn.TxPackets: s.resetIdle()
ResetIdleStep(g) ==
    /\ thr[g].pc = "locked" /\ thr[g].op = "TxPackets"
    /\ dbus' = resetIdle(dbus, conn)
    /\ At(g, "io", "TxPackets", "")
    /\ UNCHANGED <<dev, line, kern, cbus, mu, usingSPI, usingI2C, maxFreq, conn, pullUp,
                   dmask, dvalue, hwClock, holdsPort, holdsConn, holdsBus,
                   call, wire, ctl, rbuf, rxq>>

\* spiMPSEEConn.TxPackets: the transfer and the deferred s.f.mu.Unlock()
TxPacketsStep(g, pkts, data, fails) ==
    /\ thr[g].pc = "io" /\ thr[g].op = "TxPackets"
    /\ VerifyPackets(pkts) = "none"
    /\ TxPacketsIO(pkts, data, fails, dbus)
    /\ mu' = 0
    /\ thr' = [thr EXCEPT ![g] = Idle]
    /\ ctl' = <<>>
    /\ UNCHANGED <<dev, line, kern, cbus, dbus, usingSPI, usingI2C, maxFreq, conn, pullUp,
                   dmask, dvalue, hwClock, holdsPort, holdsConn, holdsBus, rxq>>

\* gpiosMPSSE.in / gpiosMPSSE.out: the update of the cache.
PinCacheStep(g, grp, n, op, l) ==
    /\ dev = "FT232H" /\ thr[g].pc = "idle"
    /\ SetCache(grp, IF op = "In" THEN gpioInCache(Cache(grp), n)
                     ELSE gpioOutCache(Cache(grp), n, l))
    /\ At(g, "write", op, grp)
    /\ UNCHANGED <<dev, line, kern, mu, usingSPI, usingI2C, maxFreq, conn, pullUp, dmask,
                   dvalue, hwClock, holdsPort, holdsConn, holdsBus, call, wire,
                   ctl, rbuf, rxq>>

\* gpiosMPSSE.in / gpiosMPSSE.out: the group-set command built from the cache.
PinWriteStep(g, fails) ==
    /\ thr[g].pc = "write"
    /\ IF Ok(1, fails)
       THEN /\ wire' = GroupSetCmd(thr[g].grp, Cache(thr[g].grp))
            /\ Returned(thr[g].op, "ok")
       ELSE wire' = <<>> /\ Returned(thr[g].op, "err:io")
    /\ thr' = [thr EXCEPT ![g] = Idle]
    /\ ctl' = <<>> /\ rbuf' = <<>>
    /\ UNCHANGED <<dev, line, kern, cbus, dbus, mu, usingSPI, usingI2C, maxFreq, conn,
                   pullUp, dmask, dvalue, hwClock, holdsPort, holdsConn,
                   holdsBus, rxq>>

ConcPackets ==
    {<<Pkt(<<165>>, <<>>, FALSE, 8)>>, <<Pkt(<<165>>, <<0>>, FALSE, 8)>>}
ConcPins == {<<"D", 3>>, <<"D", 5>>, <<"C", 5>>}
ConcConnectInputs == {<<1 * MegaHertz, 0, 8>>, <<1 * MegaHertz, 3 + NoCS, 8>>}

\* Goroutines 1 and 2 call TxPackets and the pins of one FT232H at will.
NextConc ==
    \/ Quiet /\ SPI
    \/ Quiet /\ \E in \in ConcConnectInputs, fails \in FailSets :
                    Connect(in[1], in[2], in[3], fails)
    \/ \E g \in Goroutines : LockTxPackets(g)
    \/ \E g \in Goroutines : ResetIdleStep(g)
    \/ \E g \in Goroutines, pkts \in ConcPackets, data \in MisoInputs,
          fails \in FailSets :
           TxPacketsStep(g, pkts, data, fails)
    \/ \E g \in Goroutines, pin \in ConcPins, op \in {"In", "Out"},
          l \in BOOLEAN :
           PinCacheStep(g, pin[1], pin[2], op, l)
    \/ \E g \in Goroutines, fails \in FailSets : PinWriteStep(g, fails)
    \/ \E grp \in Groups, dv \in GroupInputs, fails \in FailSets :
           GroupWrite(grp, dv[1], dv[2], fails)

SpecConc == InitFT232H /\ [][NextConc]_vars

-----------------------------------------------------------------------------
(* handle.Write and handle.ReadAll against the d2xx transport.             *)

\* The largest request handle.Write and handle.ReadAll hand to the device.
maxChunk == 4096

\* How the device answers one d2xx Write of chunk bytes: it takes all of
\* them, half of them or none, or it fails having taken none or a few.
WriteAnswers == {"all", "half", "none", "fail", "failPartial"}
Accepted(a, chunk) ==
    CASE a = "all" -> chunk
      [] a = "half" -> chunk \div 2
      [] a = "failPartial" -> Min(2, chunk)
      [] OTHER -> 0
Failed(a) == a \in {"fail", "failPartial"}

\* A loop that forgets what the failing request took.
RECURSIVE handleWriteDropsPartial(_, _, _, _)
handleWriteDropsPartial(L, offset, answers, log) ==
    IF offset = L THEN [n |-> L, err |-> FALSE, log |-> log]
    ELSE LET chunk == Min(L - offset, maxChunk)
             a == IF answers = <<>> THEN "all" ELSE Head(answers)
             p == Accepted(a, chunk)
             log2 == Append(log, [kind |-> "WriteFast", off |-> offset,
                                  len |-> chunk, p |-> p])
         IN  IF Failed(a) THEN [n |-> offset, err |-> TRUE, log |-> log2]
             ELSE handleWriteDropsPartial(L, offset + p,
                      IF answers = <<>> THEN <<>> ELSE Tail(answers), log2)

\* The loop of handle.Write over a buffer of L bytes from offset on; answers
\* are the device's answers to the coming requests (it takes everything once
\* they are used up), log the requests made so far.
RECURSIVE handleWrite(_, _, _, _)
handleWrite(L, offset, answers, log) ==
    IF offset = L THEN [n |-> L, err |-> FALSE, log |-> log]
    ELSE LET chunk == Min(L - offset, maxChunk)
             a == IF answers = <<>> THEN "all" ELSE Head(answers)
             p == Accepted(a, chunk)
             log2 == Append(log, [kind |-> "WriteFast", off |-> offset,
                                  len |-> chunk, p |-> p])
         IN  IF Failed(a) THEN [n |-> offset + p, err |-> TRUE, log |-> log2]
             ELSE handleWrite(L, IF p # 0 THEN offset + p ELSE offset,
                      IF answers = <<>> THEN <<>> ELSE Tail(answers), log2)

\* The bytes of the buffers handed to handle.Write.
WriteByte(i) == (17 + 29 * i) % 256

\* handle.Write(b) with len(b) = L: ctl lists the requests, wire what the
\* device took, the call records len(b) and the n returned.
HandleWrite(L, answers) ==
    /\ \E b \in {[i \in 1..L |-> WriteByte(i)]} :
       \E res \in {handleWrite(L, 0, answers, <<>>)} :
           /\ ctl' = res.log
           /\ wire' = Flatten([k \in 1..Len(res.log) |->
                          SubSeq(b, res.log[k].off + 1,
                                 res.log[k].off + res.log[k].p)])
           /\ call' = [op |-> "Write", arg |-> L, n |-> res.n,
                       ret |-> IF res.err THEN "err:io" ELSE "ok"]
    /\ rbuf' = <<>>
    /\ UNCHANGED <<dev, line, kern, cbus, dbus, mu, thr, usingSPI, usingI2C, maxFreq, conn,
                   pullUp, dmask, dvalue, hwClock, holdsPort, holdsConn,
                   holdsBus, rxq>>

MaxAnswers == 2
AnswerInputs ==
    UNION {[1..k -> WriteAnswers] : k \in 0..MaxAnswers}
WriteLenInputs == {0, 1, 3, maxChunk + 3}

NextWrite ==
    \E L \in WriteLenInputs, answers \in AnswerInputs : HandleWrite(L, answers)

SpecWrite == Init /\ [][NextWrite]_vars


\* What one pass of the loop of handle.ReadAll meets: a cancelled context,
\* an empty queue, one byte or more than a chunk pending, a failing
\* GetQueueStatus that reports 2 bytes, or a d2xx Read that fails after 1 byte.
ReadAnswers == {"cancel", "empty", "one", "many", "statusErr", "readErr"}
Pending(a) ==
    CASE a = "one" -> 1
      [] a = "many" -> maxChunk + 904
      [] a = "statusErr" -> 2
      [] a = "readErr" -> 3
      [] OTHER -> 0

\* handle.Read(b) with len(b) = space: [n, err, v] where v is the size of
\* the d2xx Read it issued, 0 when it issued none.
handleRead(a, space) ==
    IF Pending(a) = 0 \/ a = "statusErr"
    THEN [n |-> Pending(a), err |-> a = "statusErr", v |-> 0]
    ELSE IF a = "readErr"
    THEN [n |-> Min(1, Min(Pending(a), space)), err |-> TRUE,
          v |-> Min(Pending(a), space)]
    ELSE [n |-> Min(Pending(a), space), err |-> FALSE,
          v |-> Min(Pending(a), space)]

\* A loop that reports a cancelled context as success.
RECURSIVE handleReadAllCancelNil(_, _, _, _, _)
handleReadAllCancelNil(L, offset, got, answers, log) ==
    IF offset = L THEN [n |-> L, ret |-> "ok", got |-> got, log |-> log]
    ELSE LET a == IF answers = <<>> THEN "many" ELSE Head(answers)
             rest == IF answers = <<>> THEN <<>> ELSE Tail(answers)
             chunk == Min(L - offset, maxChunk)
             r == handleRead(a, chunk)
             log2 == IF r.v = 0 THEN log
                     ELSE Append(log, [kind |-> "Read", off |-> offset,
                                       len |-> r.v, pending |-> Pending(a),
                                       n |-> r.n, first |-> got + 1])
             got2 == IF r.v = 0 THEN got ELSE got + r.n
         IN  IF a = "cancel"
             THEN [n |-> offset, ret |-> "ok", got |-> got, log |-> log]
             ELSE IF r.err
             THEN [n |-> offset + r.n, ret |-> "err:io", got |-> got2,
                   log |-> log2]
             ELSE handleReadAllCancelNil(L, offset + r.n, got2, rest, log2)

\* The loop of handle.ReadAll over a buffer of L bytes from offset on; got
\* counts the bytes the d2xx Reads delivered, answers is what the coming
\* passes meet (more than enough is pending once they are used up), log the
\* d2xx Reads issued so far.
RECURSIVE handleReadAll(_, _, _, _, _)
handleReadAll(L, offset, got, answers, log) ==
    IF offset = L THEN [n |-> L, ret |-> "ok", got |-> got, log |-> log]
    ELSE LET a == IF answers = <<>> THEN "many" ELSE Head(answers)
             rest == IF answers = <<>> THEN <<>> ELSE Tail(answers)
             chunk == Min(L - offset, maxChunk)
             r == handleRead(a, chunk)
             log2 == IF r.v = 0 THEN log
                     ELSE Append(log, [kind |-> "Read", off |-> offset,
                                       len |-> r.v, pending |-> Pending(a),
                                       n |-> r.n, first |-> got + 1])
             got2 == IF r.v = 0 THEN got ELSE got + r.n
         IN  IF a = "cancel"
             THEN [n |-> offset, ret |-> "err:EOF", got |-> got, log |-> log]
             ELSE IF r.err
             THEN [n |-> offset + r.n, ret |-> "err:io", got |-> got2,
                   log |-> log2]
             ELSE handleReadAll(L, offset + r.n, got2, rest, log2)

\* handle.ReadAll(ctx, b) with len(b) = L: ctl lists the d2xx Reads, each
\* with the place in b it was given (off, len), the bytes it delivered (n)
\* and the rank of the first of them in arrival order (first); the call
\* records len(b) and the n returned.
HandleReadAll(L, answers) ==
    /\ \E res \in {handleReadAll(L, 0, 0, answers, <<>>)} :
           /\ ctl' = res.log
           /\ rbuf' = <<>>
           /\ call' = [op |-> "ReadAll", arg |-> L, n |-> res.n,
                       ret |-> res.ret, got |-> res.got]
    /\ wire' = <<>>
    /\ UNCHANGED <<dev, line, kern, cbus, dbus, mu, thr, usingSPI, usingI2C, maxFreq, conn,
                   pullUp, dmask, dvalue, hwClock, holdsPort, holdsConn,
                   holdsBus, rxq>>

MaxPasses == 2
PassInputs == UNION {[1..k -> ReadAnswers] : k \in 0..MaxPasses}
ReadLenInputs == {0, 1, 2, 3, maxChunk + 3}

NextReadAll ==
    \E L \in ReadLenInputs, answers \in PassInputs : HandleReadAll(L, answers)

SpecReadAll == Init /\ [][NextReadAll]_vars


-----------------------------------------------------------------------------
(* handle.InitMPSSE: verification, the reset path and the first command.   *)

bitModeReset == 0
bitModeMpsse == 2
clockNormal == 151
internalLoopbackDisable == 133

\* A call handle.InitMPSSE made, with what it was given and how it ended.
Made(kind, data, ret) == [kind |-> kind, data |-> data, ret |-> ret]

\* How one mpsseVerify goes: at = 0 when both probes are echoed, else the
\* probe (1: 0xAA, 2: 0xAB) that fails and why: the write is rejected,
\* GetQueueStatus fails, the reply is not 2 bytes, or the echo is wrong.
VerifyAnswers ==
    {[at |-> 0, why |-> "ok"]}
    \cup [at : {1, 2}, why : {"write", "status", "short", "echo"}]

\* The bytes an mpsseVerify gets the device to accept.
mpsseVerifyBytes(a) ==
    LET probes == <<(<<170, flush>>), (<<171, flush>>)>>
        n == IF a.at = 0 THEN 2
             ELSE IF a.why = "write" THEN a.at - 1 ELSE a.at
    IN  Flatten(SubSeq(probes, 1, n))

\* handle.mpsseVerify
mpsseVerify(a) ==
    [made |-> Made("mpsseVerify", <<a.at>>, a.why), ok |-> a.at = 0,
     bytes |-> mpsseVerifyBytes(a)]

\* handle.Reset: ResetDevice, then SetBitMode(0, bitModeReset), then Flush
\* whose error is dropped.
ResetAnswers == {"ok", "ResetDevice", "SetBitMode"}

\* The command that puts the engine in a known state.
InitCmd ==
    <<clock30MHz, clockNormal, clock2Phase, internalLoopbackDisable,
      gpioSetC, 0, 0, gpioSetD, 0, 0>>

\* The tail of handle.InitMPSSE: the command that resets the clock and sets
\* all 16 GPIOs as inputs.
initMPSSEEnd(log, bytes, cmdOk) ==
    [log |-> Append(log, Made("Write", InitCmd, IF cmdOk THEN "ok" ELSE "io")),
     wire |-> IF cmdOk THEN bytes \o InitCmd ELSE bytes,
     ret |-> IF cmdOk THEN "ok" ELSE "err:io"]

\* An InitMPSSE that goes on to the command whatever the second
\* verification says.
initMPSSEIgnoresRecheck(v1, v2, reset, initOk, modeOk, cmdOk) ==
    LET a == mpsseVerify(v1)
        b == mpsseVerify(v2)
        l1 == <<a.made, Made("Reset", <<>>, reset)>>
        l2 == Append(l1, Made("Init", <<>>, IF initOk THEN "ok" ELSE "io"))
        l3 == Append(l2, Made("SetBitMode", <<0, bitModeMpsse>>,
                              IF modeOk THEN "ok" ELSE "io"))
    IN  IF a.ok THEN initMPSSEEnd(<<a.made>>, a.bytes, cmdOk)
        ELSE IF reset # "ok"
        THEN [log |-> l1, wire |-> a.bytes, ret |-> "err:reset"]
        ELSE IF ~initOk THEN [log |-> l2, wire |-> a.bytes, ret |-> "err:init"]
        ELSE IF ~modeOk THEN [log |-> l3, wire |-> a.bytes, ret |-> "err:mode"]
        ELSE initMPSSEEnd(Append(l3, b.made), a.bytes \o b.bytes, cmdOk)

\* handle.InitMPSSE: the calls it makes in order, the bytes the device
\* accepts and the result, given how each call goes.
initMPSSE(v1, v2, reset, initOk, modeOk, cmdOk) ==
    LET a == mpsseVerify(v1)
        b == mpsseVerify(v2)
        l1 == <<a.made, Made("Reset", <<>>, reset)>>
        l2 == Append(l1, Made("Init", <<>>, IF initOk THEN "ok" ELSE "io"))
        l3 == Append(l2, Made("SetBitMode", <<0, bitModeMpsse>>,
                              IF modeOk THEN "ok" ELSE "io"))
    IN  IF a.ok THEN initMPSSEEnd(<<a.made>>, a.bytes, cmdOk)
        ELSE IF reset # "ok"
        THEN [log |-> l1, wire |-> a.bytes, ret |-> "err:reset"]
        ELSE IF ~initOk THEN [log |-> l2, wire |-> a.bytes, ret |-> "err:init"]
        ELSE IF ~modeOk THEN [log |-> l3, wire |-> a.bytes, ret |-> "err:mode"]
        ELSE IF ~b.ok
        THEN [log |-> Append(l3, b.made), wire |-> a.bytes \o b.bytes,
              ret |-> "err:verify"]
        ELSE initMPSSEEnd(Append(l3, b.made), a.bytes \o b.bytes, cmdOk)

\* handle.InitMPSSE on an open FT232H: ctl lists the calls it made.
InitMPSSE(v1, v2, reset, initOk, modeOk, cmdOk) ==
    /\ dev = "FT232H"
    /\ \E res \in {initMPSSE(v1, v2, reset, initOk, modeOk, cmdOk)} :
           /\ ctl' = res.log
           /\ wire' = res.wire
           /\ call' = [op |-> "InitMPSSE", ret |-> res.ret]
    /\ rbuf' = <<>>
    /\ UNCHANGED <<dev, line, kern, cbus, dbus, mu, thr, usingSPI, usingI2C, maxFreq, conn,
                   pullUp, dmask, dvalue, hwClock, holdsPort, holdsConn,
                   holdsBus, rxq>>

NextInit ==
    \E v1 \in VerifyAnswers, v2 \in VerifyAnswers, reset \in ResetAnswers,
       initOk \in BOOLEAN, modeOk \in BOOLEAN, cmdOk \in BOOLEAN :
        InitMPSSE(v1, v2, reset, initOk, modeOk, cmdOk)

SpecInit == InitFT232H /\ [][NextInit]_vars

-----------------------------------------------------------------------------
\* One FT232H whose pins D0~D3 are used by the SPI engine and by the I2C
\* engine in turn, the caller keeping the objects each engine handed out.
NextShared ==
    \/ SPI
    \/ \E a \in ConcConnectInputs, fails \in FailSets :
           Connect(a[1], a[2], a[3], fails)
    \/ SPIClose
    \/ \E pkts \in {<<>>, <<Pkt(<<60>>, <<0>>, FALSE, 8)>>},
          data \in MisoInputs, fails \in FailSets :
           TxPackets(pkts, data, fails)
    \/ \E fails \in FailSets : I2C("Float", fails)
    \/ \E fails \in FailSets : I2CClose(fails)
    \/ \E addr \in AddrInputs, w \in {<<>>, <<WByte(1)>>},
          r0 \in {<<>>, <<0>>}, acks \in {[i \in 1..(1 + MaxWrite) |-> b] : b \in {0, 1}},
          data \in DataInputs, fails \in FailSets :
           Tx(addr, w, r0, acks, data, fails)

SpecShared == InitFT232H /\ [][NextShared]_vars

-----------------------------------------------------------------------------
(* The D pins of an FT232R as GPIOs: dbusPinSync over the FT232R methods.  *)

\* What a pin call of the FT232R leaves alone.
SyncPinFrame ==
    /\ rbuf' = <<>>
    /\ UNCHANGED <<dev, line, kern, cbus, mu, thr, usingSPI, usingI2C, maxFreq, conn, dbus,
                   pullUp, hwClock, holdsPort, holdsConn, holdsBus, rxq>>

\* dbusPinSync.In with the default pull and no edge -> FT232R.dbusSyncGPIOIn
SyncPinIn(n, fails) ==
    /\ dev = "FT232R"
    /\ SyncPinFrame
    /\ wire' = <<>> /\ UNCHANGED dvalue
    /\ IF BitAnd(dmask, 2 ^ n) = 0
       THEN ctl' = <<>> /\ UNCHANGED dmask /\ Returned("In", "ok")
       ELSE IF Ok(1, fails)
       THEN /\ ctl' = <<BitModeReq(AndNot(dmask, 2 ^ n), bitModeAsyncBitbang)>>
            /\ dmask' = AndNot(dmask, 2 ^ n)
            /\ Returned("In", "ok")
       ELSE ctl' = <<>> /\ UNCHANGED dmask /\ Returned("In", "err:io")

\* dbusPinSync.Read -> FT232R.dbusSyncGPIORead. sample is the byte the device
\* answers and readOk whether h.ReadAll delivers it.
SyncPinRead(n, sample, readOk, fails) ==
    /\ dev = "FT232R"
    /\ SyncPinFrame
    /\ ctl' = <<>> /\ UNCHANGED dmask
    /\ IF ~Ok(1, fails)
       THEN wire' = <<>> /\ UNCHANGED dvalue /\ Returned("Read", "Low")
       ELSE /\ wire' = <<dvalue>>
            /\ IF readOk
               THEN /\ dvalue' = sample
                    /\ Returned("Read",
                                IF Bit(sample, n) = 1 THEN "High" ELSE "Low")
               ELSE UNCHANGED dvalue /\ Returned("Read", "Low")

\* dbusPinSync.Out -> FT232R.dbusSyncGPIOOut
SyncPinOut(n, l, fails) ==
    LET setDir == BitAnd(dmask, 2 ^ n) # 1
        v == BitOr(dmask, 2 ^ n)
        reqs == (IF setDir THEN <<BitModeReq(v, bitModeAsyncBitbang)>>
                 ELSE <<>>)
                \o dbusSyncGPIOOutLocked(n, l)
        nf == FirstFail(Len(reqs), fails)
    IN
    /\ dev = "FT232R"
    /\ SyncPinFrame
    /\ \E acc \in {SubSeq(reqs, 1, nf - 1)} :
           wire' = WrittenBytes(acc) /\ ctl' = ControlReqs(acc)
    /\ dmask' = IF setDir /\ nf > 1 THEN v ELSE dmask
    /\ UNCHANGED dvalue
    /\ Returned("Out", IF nf > Len(reqs) THEN "ok" ELSE "err:io")

SyncPinNumbers == {0, 5}

\* The D-group pins of either chip used as GPIOs.
NextPins ==
    \/ \E n \in PinNumbers, fails \in FailSets : PinIn("D", n, fails)
    \/ \E n \in PinNumbers, l \in BOOLEAN, fails \in FailSets :
           PinOut("D", n, l, fails)
    \/ \E n \in PinNumbers, pins \in PinsInputs, fails \in FailSets :
           PinRead("D", n, pins, fails)
    \/ \E n \in SyncPinNumbers, fails \in FailSets : SyncPinIn(n, fails)
    \/ \E n \in SyncPinNumbers, l \in BOOLEAN, fails \in FailSets :
           SyncPinOut(n, l, fails)
    \/ \E n \in SyncPinNumbers, sample \in PinsInputs, readOk \in BOOLEAN,
          fails \in FailSets :
           SyncPinRead(n, sample, readOk, fails)

SpecPins == Init /\ [][NextPins]_vars

-----------------------------------------------------------------------------
(* gpioioctl: one GPIOLine over the kernel's GPIO v2 character device.     *)

\* gpio.Pull and gpio.Edge values.
Pulls == {"PullNoChange", "Float", "PullDown", "PullUp"}
Edges == {"NoEdge", "RisingEdge", "FallingEdge", "BothEdges"}

\* The descriptor the kernel hands out for a line request.
lineFd == 3

\* getFlags: the flag bits of a configuration, as a set of flag names.
getFlags(dir, edge, pull) ==
    (IF dir = "Input" THEN {"INPUT"}
     ELSE IF dir = "Output" THEN {"OUTPUT"} ELSE {})
    \cup (IF pull = "PullUp" THEN {"BIAS_PULL_UP"}
          ELSE IF pull = "PullDown" THEN {"BIAS_PULL_DOWN"} ELSE {})
    \cup (IF edge = "RisingEdge" THEN {"EDGE_RISING"}
          ELSE IF edge = "FallingEdge" THEN {"EDGE_FALLING"}
          ELSE IF edge = "BothEdges" THEN {"EDGE_RISING", "EDGE_FALLING"}
          ELSE {})

\* GPIOLine.setLine with GPIOLine.getLine: the line request when the line has
\* no descriptor yet, then the line configuration.  fails holds the 1-based
\* indices, counted from first, of the ioctls the kernel refuses.
setLine(l, k, flags, first, fails) ==
    IF l.fd = 0 /\ ~Ok(first, fails)
    THEN [line |-> l, kern |-> k, ctl |-> <<>>, err |-> TRUE]
    ELSE LET req == l.fd = 0
             l1 == IF req THEN [l EXCEPT !.fd = lineFd, !.consumer = "periph"]
                   ELSE l
             k1 == IF req THEN [k EXCEPT !.open = TRUE] ELSE k
             made == IF req
                     THEN <<[kind |-> "line_request", data |-> {}]>>
                     ELSE <<>>
         IN  IF Ok(first + Len(made), fails)
             THEN [line |-> l1, kern |-> [k1 EXCEPT !.flags = flags],
                   ctl |-> Append(made, [kind |-> "line_config",
                                         data |-> flags]),
                   err |-> FALSE]
             ELSE [line |-> l1, kern |-> k1, ctl |-> made, err |-> TRUE]

\* The field assignments of GPIOLine.In before it calls setLine.
lineIn(l, pull, edge) ==
    [l EXCEPT !.edge = edge, !.direction = "Input", !.pull = pull]

\* An output switch that keeps the bias the line had.
setOutKeepsPull(l) == [l EXCEPT !.direction = "Output", !.edge = "NoEdge"]

\* The field assignments of GPIOLine.setOut before it calls setLine.
setOut(l) ==
    [l EXCEPT !.direction = "Output", !.edge = "NoEdge",
              !.pull = "PullNoChange"]

\* What a GPIOLine call leaves alone.
LineFrame ==
    /\ wire' = <<>> /\ rbuf' = <<>>
    /\ UNCHANGED <<dev, cbus, mu, usingSPI, usingI2C, maxFreq, conn, dbus,
                   pullUp, dmask, dvalue, hwClock, holdsPort, holdsConn,
                   holdsBus, rxq>>

\* Nobody is inside WaitForEdge.
NoWaiter == \A g \in Goroutines : thr[g].pc = "idle"

\* GPIOLine.In
LineIn(pull, edge, fails) ==
    /\ NoWaiter /\ LineFrame /\ UNCHANGED thr
    /\ \E r \in {setLine(lineIn(line, pull, edge), kern,
                         getFlags("Input", edge, pull), 1, fails)} :
        /\ line' = r.line /\ kern' = r.kern /\ ctl' = r.ctl
        /\ Returned("In", IF r.err THEN "err:io" ELSE "ok")

\* GPIOLine.Out
LineOut(l, fails) ==
    /\ NoWaiter /\ LineFrame /\ UNCHANGED thr
    /\ \E r \in {IF line.direction # "Output"
                 THEN setLine(setOut(line), kern,
                              getFlags("Output", "NoEdge", "PullNoChange"),
                              1, fails)
                 ELSE [line |-> line, kern |-> kern, ctl |-> <<>>,
                       err |-> FALSE]} :
        /\ line' = r.line
        /\ IF r.err
           THEN kern' = r.kern /\ ctl' = r.ctl /\ Returned("Out", "err:io")
           ELSE IF /\ Ok(Len(r.ctl) + 1, fails)
                   /\ r.line.fd # 0 /\ "OUTPUT" \in r.kern.flags
           THEN /\ kern' = [r.kern EXCEPT !.value = l]
                /\ ctl' = Append(r.ctl, [kind |-> "set_values", data |-> {l}])
                /\ Returned("Out", "ok")
           ELSE kern' = r.kern /\ ctl' = r.ctl /\ Returned("Out", "err:io")

\* GPIOLine.Read; level is the level present on the pin. The call has no
\* error result: it reports Low when an ioctl fails.
LineRead(level, fails) ==
    /\ NoWaiter /\ LineFrame /\ UNCHANGED thr
    /\ \E r \in {IF line.direction # "Input"
                 THEN setLine(lineIn(line, "PullUp", "NoEdge"), kern,
                              getFlags("Input", "NoEdge", "PullUp"), 1, fails)
                 ELSE [line |-> line, kern |-> kern, ctl |-> <<>>,
                       err |-> FALSE]} :
        /\ line' = r.line /\ kern' = r.kern
        /\ IF ~r.err /\ Ok(Len(r.ctl) + 1, fails) /\ r.line.fd # 0
           THEN /\ ctl' = Append(r.ctl, [kind |-> "get_values", data |-> {}])
                /\ Returned("Read",
                            IF (IF "OUTPUT" \in r.kern.flags
                                THEN r.kern.value ELSE level)
                            THEN "High" ELSE "Low")
           ELSE ctl' = r.ctl /\ Returned("Read", "Low")

\* GPIOLine.Close
LineClose ==
    /\ NoWaiter /\ LineFrame /\ UNCHANGED thr
    /\ line' = [line EXCEPT !.fd = 0, !.consumer = "", !.edge = "NoEdge",
                            !.direction = "NotSet", !.pull = "PullNoChange",
                            !.fEdge = FALSE]
    /\ kern' = IF line.fEdge \/ line.fd # 0 THEN NoRequest ELSE kern
    /\ ctl' = <<>>
    /\ Returned("Close", "ok")

\* One GPIOLine used from one goroutine.
NextLine ==
    \/ \E pull \in Pulls, edge \in Edges, fails \in FailSets :
           LineIn(pull, edge, fails)
    \/ \E l \in BOOLEAN, fails \in FailSets : LineOut(l, fails)
    \/ \E level \in BOOLEAN, fails \in FailSets : LineRead(level, fails)
    \/ LineClose

SpecLine == InitFT232H /\ [][NextLine]_vars

-----------------------------------------------------------------------------
(* GPIOLine.WaitForEdge statement by statement, with GPIOLine.Halt.        *)

\* Where goroutine g is inside WaitForEdge; ctx is "forever" for timeout 0.
Waiting(g, pc, ctx) ==
    thr' = [thr EXCEPT ![g] = [pc |-> pc, op |-> "WaitForEdge", grp |-> "",
                               ctx |-> ctx, elapsed |-> 0, spin |-> 0]]

\* What a statement of WaitForEdge or Halt leaves alone.
EdgeFrame ==
    /\ LineFrame
    /\ ctl' = <<>>

\* WaitForEdge: the configuration test on entry.  A line whose request was
\* refused (fd 0) is left out; one goroutine waits at a time.
WaitBegin(g, ctx) ==
    /\ NoWaiter /\ EdgeFrame
    /\ UNCHANGED <<line, kern>>
    /\ IF line.edge = "NoEdge" \/ line.direction = "NotSet"
       THEN Returned("WaitForEdge", "false") /\ UNCHANGED thr
       ELSE /\ line.fd # 0
            /\ call' = [op |-> "WaitForEdge", ret |-> "pending"]
            /\ Waiting(g, "fEdge", ctx)

\* WaitForEdge: SetNonblock and os.NewFile when the line has no edge file.
WaitOpenFile(g) ==
    /\ thr[g].pc = "fEdge" /\ EdgeFrame
    /\ line' = [line EXCEPT !.fEdge = TRUE]
    /\ Waiting(g, "deadline", thr[g].ctx)
    /\ UNCHANGED <<kern, call>>

\* WaitForEdge: fEdge.SetReadDeadline, no deadline for timeout 0.
WaitSetDeadline(g) ==
    /\ thr[g].pc = "deadline" /\ EdgeFrame
    /\ kern' = [kern EXCEPT !.deadline =
                    IF thr[g].ctx = "forever" THEN "none" ELSE "future"]
    /\ Waiting(g, "read", thr[g].ctx)
    /\ UNCHANGED <<line, call>>

\* WaitForEdge: binary.Read returns "i/o timeout" because the deadline of the
\* edge file is in the past.
WaitInterrupted(g) ==
    /\ thr[g].pc = "read" /\ kern.deadline = "past" /\ EdgeFrame
    /\ Returned("WaitForEdge", "false")
    /\ thr' = [thr EXCEPT ![g] = Idle]
    /\ UNCHANGED <<line, kern>>

\* WaitForEdge: the timeout elapses while binary.Read is blocked.
WaitExpires(g) ==
    /\ thr[g].pc = "read" /\ kern.deadline = "future" /\ EdgeFrame
    /\ kern' = [kern EXCEPT !.deadline = "past"]
    /\ Returned("WaitForEdge", "false")
    /\ thr' = [thr EXCEPT ![g] = Idle]
    /\ UNCHANGED line

\* GPIOLine.Halt
Halt ==
    /\ EdgeFrame
    /\ kern' = IF line.fEdge THEN [kern EXCEPT !.deadline = "past"] ELSE kern
    /\ Returned("Halt", "ok")
    /\ UNCHANGED <<line, thr>>

\* One GPIOLine configured by In, a goroutine waiting for an edge that does
\* not come and another goroutine calling Halt.
NextEdge ==
    \/ \E pull \in {"PullUp"}, edge \in Edges, fails \in FailSets :
           LineIn(pull, edge, fails)
    \/ LineClose
    \/ \E ctx \in {"forever", "timeout"} : WaitBegin(1, ctx)
    \/ WaitOpenFile(1)
    \/ WaitSetDeadline(1)
    \/ WaitInterrupted(1)
    \/ WaitExpires(1)
    \/ Halt

SpecEdge == InitFT232H /\ [][NextEdge]_vars

-----------------------------------------------------------------------------
\* One FT232H whose SPI port is connected and limited at various speeds.
SpeedInputs ==
    {50 * Hertz, 1 * MegaHertz, 7 * MegaHertz, 30 * MegaHertz,
     40 * MegaHertz, 2 * GigaHertz}

NextSpeed ==
    \/ SPI
    \/ \E f \in SpeedInputs, bits \in {8, 16}, fails \in FailSets :
           Connect(f, 0, bits, fails)
    \/ \E f \in SpeedInputs, fails \in FailSets : LimitSpeed(f, fails)
    \/ SPIClose

SpecSpeed == InitFT232H /\ [][NextSpeed]_vars

-----------------------------------------------------------------------------
\* One FT232H used for SPI transfers that span several command buffers:
\* packets with both buffers, write-only packets and read-only packets.
PipeLenInputs == {1, 2, 479, 480, 988, 989, 1497, 1600}
PipePacketInputs ==
    UNION {{Pkt([i \in 1..L |-> TxByte(i)], [i \in 1..L |-> 0], FALSE, 8),
            Pkt([i \in 1..L |-> TxByte(i)], <<>>, FALSE, 8),
            Pkt(<<>>, [i \in 1..L |-> 0], FALSE, 8)} : L \in PipeLenInputs}
PipeDataInputs == {[i \in 1..1600 |-> TxMisoByte(i)]}

NextPipe ==
    \/ SPI
    \/ \E a \in ConcConnectInputs, fails \in FailSets :
           Connect(a[1], a[2], a[3], fails)
    \/ SPIClose
    \/ \E p \in PipePacketInputs, data \in PipeDataInputs, fails \in FailSets :
           TxPackets(<<p>>, data, fails)

SpecPipe == InitFT232H /\ [][NextPipe]_vars

-----------------------------------------------------------------------------
\* One FT232R in bit-bang SPI with a slave on its MISO pin (D1): every sample
\* read back carries the levels the chip drives on its outputs and, on D1,
\* what the slave answers: "low", "high", or "inv", the inverse of D0.
SlavePatterns == {"low", "high", "inv"}
SlaveSamples(we, rlen, pat) ==
    [k \in 1..rlen |->
        LET out == IF k <= Len(we) THEN we[k] ELSE we[Len(we)]
            hi == \/ pat = "high"
                  \/ pat = "inv" /\ Bit(out, 0) = 0
        IN  IF hi THEN BitOr(out, syncMiso) ELSE AndNot(out, syncMiso)]

\* A write-only packet whose samples exceed the first two chunks of
\* FT232R.txLocked (128 + 64).
LongWrite == 11

\* Packet lists for the bit-bang engine: one or two packets, full-duplex,
\* write-only and read-only, and a long write-only packet before a
\* full-duplex one.
DecimPacketInputs ==
    {<<Pkt(<<0>>, <<0>>, FALSE, 8)>>,
     <<Pkt(<<165, 60>>, <<0, 0>>, FALSE, 0)>>,
     <<Pkt(<<>>, <<0>>, FALSE, 8)>>,
     <<Pkt(<<129>>, <<>>, FALSE, 8)>>,
     <<Pkt(<<255>>, <<0>>, FALSE, 8), Pkt(<<0>>, <<0>>, FALSE, 8)>>,
     <<Pkt(<<255>>, <<>>, FALSE, 8), Pkt(<<0>>, <<0>>, FALSE, 8)>>,
     <<Pkt([i \in 1..LongWrite |-> TxByte(i)], <<>>, FALSE, 8),
       Pkt(<<0>>, <<0>>, FALSE, 8)>>}

NextDecim ==
    \/ SyncSPI
    \/ \E a \in LoopConnectInputs, fails \in FailSets :
           SyncConnect(a[1], a[2], a[3], fails)
    \/ SyncClose
    \/ \E pkts \in DecimPacketInputs, pat \in SlavePatterns,
          fails \in FailSets :
           SyncTxPackets(pkts,
                         SlaveSamples(syncExpand(pkts, conn),
                                      syncTotalR(pkts), pat), fails)

SpecDecim == InitFT232R /\ [][NextDecim]_vars

-----------------------------------------------------------------------------
\* The events of a transfer whose writes go through handle.WriteFast: the
\* j-th write is answered by the j-th of answers (the device takes everything
\* once they are used up) and puts on the wire only what the device took;
\* the transfer stops at the first answer that is an error.
RECURSIVE writeFastEvents(_, _, _, _)
writeFastEvents(evs, j, answers, acc) ==
    IF j > Len(evs) THEN [evs |-> acc, err |-> FALSE]
    ELSE IF evs[j].kind = "Read"
    THEN writeFastEvents(evs, j + 1, answers, Append(acc, evs[j]))
    ELSE LET a == IF answers = <<>> THEN "all" ELSE Head(answers)
             took == [evs[j] EXCEPT
                         !.data = SubSeq(@, 1, Accepted(a, Len(@)))]
         IN  IF Failed(a) THEN [evs |-> Append(acc, took), err |-> TRUE]
             ELSE writeFastEvents(evs, j + 1,
                      IF answers = <<>> THEN <<>> ELSE Tail(answers),
                      Append(acc, took))

\* spiMPSEEConn.TxPackets against a transport that may take fewer bytes than
\* a WriteFast submits: the count WriteFast returns is dropped, only its
\* error is looked at.
TxPacketsFast(pkts, data, answers) ==
    /\ dev = "FT232H" /\ holdsConn
    /\ ctl' = <<>>
    /\ UNCHANGED <<dev, line, kern, cbus, mu, thr, usingSPI, usingI2C, maxFreq, conn, pullUp, dmask,
                   dvalue, hwClock, holdsPort, holdsConn, holdsBus, rxq>>
    /\ IF VerifyPackets(pkts) # "none"
       THEN /\ Returned("TxPackets", VerifyPackets(pkts))
            /\ wire' = <<>>
            /\ rbuf' = [k \in 1..Len(pkts) |-> pkts[k].R]
            /\ UNCHANGED dbus
       ELSE \E d \in {resetIdle(dbus, conn)} :
            \E evs \in {Flatten([k \in 1..Len(pkts) |->
                                    mpssePacket(k, pkts[k], d, conn)])} :
            \E res \in {writeFastEvents(evs, 1, answers, <<>>)} :
                /\ dbus' = d
                /\ wire' = EventBytes(res.evs)
                /\ rbuf' = ReadBuffers(pkts, res.evs, data)
                /\ Returned("TxPackets", IF res.err THEN "err:io" ELSE "ok")

\* One FT232H whose transport answers the writes of SPI transfers in every
\* way.
FastPacketInputs ==
    {<<Pkt(<<165>>, <<0>>, FALSE, 8)>>,
     <<Pkt(<<60, 195>>, <<>>, FALSE, 8)>>,
     <<Pkt(<<1>>, <<0>>, TRUE, 8), Pkt(<<2>>, <<>>, FALSE, 8)>>,
     <<Pkt(<<1>>, <<>>, FALSE, 7)>>}

NextFast ==
    \/ SPI
    \/ \E a \in ConcConnectInputs, fails \in FailSets :
           Connect(a[1], a[2], a[3], fails)
    \/ SPIClose
    \/ \E pkts \in FastPacketInputs, data \in MisoInputs,
          answers \in AnswerInputs :
           TxPacketsFast(pkts, data, answers)

SpecFast == InitFT232H /\ [][NextFast]_vars

-----------------------------------------------------------------------------
(* Claims about the bus claims of one FT232H.                              *)

\* C1: in every reachable state of one FT232H, usingSPI and usingI2C are
\* never both true.
C1_NeverBothClaimed == ~(dev = "FT232H" /\ usingSPI /\ usingI2C)

\* Whether a call to FT232H.I2C / FT232H.SPI on a working device would succeed.
I2CCanSucceed == ENABLED (I2C("Float", {}) /\ call'.ret = "ok")
SPICanSucceed == ENABLED (SPI /\ call'.ret = "ok")

\* C2: after a successful SPI Connect a call to I2C() fails with "already
\* using"; after a successful I2C() a call to SPI() fails with "already
\* using"; once the holder of the SPI port has closed it a call to I2C() on a
\* working device succeeds, and once the holder of the I2C bus has closed it
\* a call to SPI() succeeds.
C2_ReciprocalClaim ==
    [][/\ (call = [op |-> "Connect", ret |-> "ok"]
           /\ (\E fails \in FailSets : I2C("Float", fails)))
          => call'.ret = "err:inuse"
       /\ (call = [op |-> "I2C", ret |-> "ok"] /\ SPI)
          => call'.ret = "err:inuse"
       /\ (usingSPI /\ SPIClose) => I2CCanSucceed'
       /\ (usingI2C /\ (\E fails \in FailSets : I2CClose(fails)))
          => SPICanSucceed']_vars

\* C4: whenever the cached maximum frequency of the FT232H SPI port is
\* non-zero, the clock rate last programmed into the device is at or below it.
C4_CacheBoundsClock ==
    (dev = "FT232H" /\ maxFreq # 0) => hwClock <= maxFreq

\* C7: FT232H.I2C(gpio.PullUp) returns an error, does not set usingI2C and
\* writes no byte to the device.
C7_PullUpTouchesNothing ==
    [][(\E fails \in FailSets : I2C("PullUp", fails))
       => /\ call'.ret # "ok"
          /\ (~usingI2C => ~usingI2C')
          /\ wire' = <<>>]_vars

-----------------------------------------------------------------------------
(* Claims about SPI Connect argument validation.                           *)

\* The arguments SPI Connect must refuse: a word size other than 8 bits, a
\* clock below 100Hz or above 1GHz, half duplex, or a mode number outside 0..3
\* once the NoCS, HalfDuplex and LSBFirst flags are removed.
InvalidConnect(f, m, bits) ==
    \/ bits # 8
    \/ f < 100 * Hertz
    \/ f > GigaHertz
    \/ Bit(m, 2) = 1
    \/ (m % 4) + 32 * (m \div 32) \notin 0..3

\* C6: on both SPI engines, Connect with invalid arguments returns an error,
\* sends nothing to the device and leaves usingSPI as it was.
\* (Every step of Connect or SyncConnect records the operation in call; the
\* first conjunct only spares evaluating them on the steps of other
\* operations.)
C6_ConnectRejectsInvalid ==
    [][\A a \in ConnectInputs, fails \in FailSets :
          (/\ call'.op = "Connect"
           /\ InvalidConnect(a[1], a[2], a[3])
           /\ \/ Connect(a[1], a[2], a[3], fails)
              \/ SyncConnect(a[1], a[2], a[3], fails))
          => /\ call'.ret # "ok"
             /\ wire' = <<>> /\ ctl' = <<>>
             /\ usingSPI' = usingSPI]_vars

\* A Connect with an unknown mode number was refused on the FT232R after the
\* port had been used with success.
C6_Witness ==
    /\ dev = "FT232R" /\ call = [op |-> "Connect", ret |-> "err:mode"]
    /\ maxFreq # 0 /\ ~usingSPI /\ wire = <<>> /\ ctl = <<>>

-----------------------------------------------------------------------------
(* Claims about I2C transactions.                                          *)

\* A receiver acknowledges a byte by holding SDA low during the ninth clock,
\* and the one-bit read returns the level of SDA in bit 0. readBytes follows
\* the same convention when the master answers: 0 for ACK, a 1 bit for NAK.
Acknowledges(b) == Bit(b, 0) = 0

\* The bytes Tx writes up to and including the address byte.
AddressPhase(addr) == setI2CStart(dbus) \o writeBytesCmd(dbus, Byte(addr))

\* C8: whenever the device does not acknowledge the address byte, Tx returns
\* "got NAK" and writes neither a data-out command for a byte of w nor a
\* read-phase command: nothing follows the address byte on the wire.
C8_AddressNakStopsTx ==
    [][\A addr \in AddrInputs, w \in WInputs, r0 \in RInputs,
          acks \in AckInputs, data \in DataInputs :
          (~Acknowledges(acks[1]) /\ Tx(addr, w, r0, acks, data, {}))
          => /\ call'.ret = "err:nak"
             /\ wire' = AddressPhase(addr)]_vars

\* C9: for a write transaction Tx(addr, w, nil) in which the device
\* acknowledges every byte, Tx returns nil and the bytes written are, in
\* order, the start pattern, the data-out of byte(addr) and of each byte of w
\* (each with its acknowledgement-bit read), the stop pattern and the
\* lines-idle command.
C9_WriteWireOrder ==
    [][\A addr \in AddrInputs, w \in WInputs, acks \in AckInputs,
          data \in DataInputs :
          (/\ \A j \in 1..(1 + Len(w)) : Acknowledges(acks[j])
           /\ Tx(addr, w, <<>>, acks, data, {}))
          => /\ call'.ret = "ok"
             /\ wire' = AddressPhase(addr)
                        \o Flatten([j \in 1..Len(w) |->
                                       writeBytesCmd(dbus, w[j])])
                        \o setI2CStop(dbus)
                        \o LinesIdleCmd(dbus)]_vars

\* C10: for a Tx with a read buffer of n >= 1 bytes, on a device whose
\* acknowledgements let the write phase complete and which supplies n bytes,
\* Tx returns nil without panicking, r[i] is the i-th byte the device sent,
\* and the master answered ACK to the first n-1 bytes and NAK to the last.
C10_ReadFillsBuffer ==
    [][\A addr \in AddrInputs, w \in WInputs, r0 \in RInputs,
          acks \in AckInputs, data \in DataInputs :
          (/\ Len(r0) >= 1
           /\ FirstNAK(w, acks) = 0
           /\ Tx(addr, w, r0, acks, data, {}))
          => /\ call'.ret = "ok"
             /\ rbuf' = [i \in 1..Len(r0) |-> data[i]]
             /\ wire' = AddressPhase(addr)
                        \o Flatten([j \in 1..Len(w) |->
                                       writeBytesCmd(dbus, w[j])])
                        \o Flatten([i \in 1..Len(r0) |->
                                       readBytesCmd(dbus, i = Len(r0))])
                        \o setI2CStop(dbus)
                        \o LinesIdleCmd(dbus)]_vars

-----------------------------------------------------------------------------
(* Claims about SPI transfers.                                             *)

\* The packets TxPackets must refuse: KeepCS set, a word size that is neither
\* 0 nor 8, or non-empty W and R of different lengths.
InvalidPacket(p) ==
    \/ p.KeepCS
    \/ p.BitsPerWord \notin {0, 8}
    \/ (Len(p.W) # 0 /\ Len(p.R) # 0 /\ Len(p.W) # Len(p.R))

\* C5: on both SPI engines, TxPackets on a list holding an invalid packet at
\* any position returns an error, writes nothing to the transport (nothing
\* for the valid packets before it either), and leaves the cached pin state
\* (dbus, dmask, dvalue) and the read buffers as they were.
\* (Every step of either TxPackets records the operation in call; the first
\* conjunct only spares evaluating them on the steps of other operations.)
C5_InvalidPacketNoWrite ==
    [][\A pkts \in PktListInputs, data \in MisoInputs,
          samples \in SampleInputs, fails \in FailSets :
          (/\ call'.op = "TxPackets"
           /\ \E k \in 1..Len(pkts) : InvalidPacket(pkts[k])
           /\ \/ TxPackets(pkts, data, fails)
              \/ SyncTxPackets(pkts, samples, fails))
          => /\ call'.ret # "ok"
             /\ wire' = <<>> /\ ctl' = <<>>
             /\ dbus' = dbus /\ dmask' = dmask /\ dvalue' = dvalue
             /\ rbuf' = [k \in 1..Len(pkts) |-> pkts[k].R]]_vars

\* A list of three packets whose last one has mismatched buffers was refused
\* on a connected FT232H.
C5_Witness ==
    /\ dev = "FT232H" /\ usingSPI
    /\ call = [op |-> "TxPackets", ret |-> "err:size"]
    /\ Len(rbuf) = 3 /\ wire = <<>>

-----------------------------------------------------------------------------
(* Claims about the MPSSE clock.                                           *)

\* C3: for a requested frequency f from 100Hz to 30MHz, MPSSEClock(f) programs
\* and returns a rate f' <= f that is the largest base/div (base 30MHz or
\* 6MHz, div in 1..65536) not above f. LimitSpeed records f in maxFreq and
\* hands it to MPSSEClock.
C3_ClockAtOrBelow ==
    (dev = "FT232H" /\ call = [op |-> "LimitSpeed", ret |-> "ok"]
     /\ wire # <<>>)
    => /\ hwClock <= maxFreq
       /\ \A base \in {30 * MegaHertz, 6 * MegaHertz} :
          \A div \in 1..65536 :
              base \div div <= maxFreq => base \div div <= hwClock

-----------------------------------------------------------------------------
(* Claims about single SPI transfers over MPSSE.                           *)

\* The connection is in mode 0 (clock idles low, data out on the falling
\* edge and in on the rising edge) and drives chip-select.
Mode0WithCS == ~conn.edgeInvert /\ ~conn.clkActiveLow /\ ~conn.noCS

\* C11: for a Tx(w, r) in mode 0 with chip-select and len(w) = len(r) = L,
\* 1 <= L <= 479, on a working device, the bytes written are the chip-select
\* assert commands (five times the idle levels, five times the same with D3
\* low), one data instruction (bytes out on the falling edge and in on the
\* rising edge) with the length field L-1 and the L bytes of w, the two
\* send-immediate bytes that bracket the read, and the chip-select deassert
\* commands; no other data instruction is written; and r holds the L bytes
\* the device sent, in order.
C11_TxOneInstruction ==
    [][\A L \in TxLenInputs :
          (/\ call'.op = "TxPackets"
           /\ 1 <= L /\ L <= TxFits
           /\ Mode0WithCS
           /\ SPITx([i \in 1..L |-> TxByte(i)], [i \in 1..L |-> 0],
                    [i \in 1..L |-> TxMisoByte(i)], {}))
          => /\ call'.ret = "ok"
             /\ Bit(dbus'.value, 3) = 1 /\ Bit(dbus'.value, 0) = 0
             /\ Bit(dbus'.direction, 3) = 1
             /\ wire' = Repeat(5, <<128, dbus'.value, dbus'.direction>>)
                        \o Repeat(5, <<128, dbus'.value - 8, dbus'.direction>>)
                        \o <<(IF conn.lsbFirst THEN 57 ELSE 49),
                             (L - 1) % 256, (L - 1) \div 256>>
                        \o [i \in 1..L |-> TxByte(i)]
                        \o <<135, 135>>
                        \o Repeat(5, <<128, dbus'.value, dbus'.direction>>)
                        \o Repeat(5, <<128, dbus'.value, dbus'.direction>>)
             /\ rbuf' = <<[i \in 1..L |-> TxMisoByte(i)]>>]_vars

\* A transfer of the longest length that fits was made in mode 0, LSB first.
C11_Witness ==
    /\ call = [op |-> "TxPackets", ret |-> "ok"]
    /\ Mode0WithCS /\ conn.lsbFirst
    /\ Len(rbuf) = 1 /\ Len(rbuf[1]) = TxFits
    /\ Len(wire) = 30 + 3 + TxFits + 2 + 30

-----------------------------------------------------------------------------
(* Claims about the bit-bang expansion.                                    *)

\* C12: on the bit-bang engine, in every mode and for both bit orders, a
\* Tx(b, r) with len(r) = len(b) whose samples are looped back (MISO wired
\* to MOSI) returns nil and leaves r equal to b.
C12_LoopbackRoundTrip ==
    [][\A b \in LoopInputs :
          (/\ call'.op = "TxPackets"
           /\ Len(wire') = 5 + 16 * Len(b) + 5
           /\ wire' = syncExpand(<<[W |-> b]>>, conn)
           /\ SyncTx(b, [i \in 1..Len(b) |-> 0],
                     Loopback(syncExpand(<<[W |-> b]>>, conn)), {}))
          => /\ call'.ret = "ok"
             /\ rbuf' = <<b>>]_vars

\* The bytes 0x01, 0x80 came back from an LSB-first loop-back transfer.
C12_Witness ==
    /\ dev = "FT232R" /\ call = [op |-> "TxPackets", ret |-> "ok"]
    /\ conn.lsbFirst /\ rbuf = <<(<<1, 128>>)>>
    /\ Len(wire) = 42

-----------------------------------------------------------------------------
(* Claims about waiting, locking and the pin caches.                       *)

\* C13: a bus-engine operation that waits for a device response (SPI
\* TxPackets on both engines, I2C Tx, the 8-pin group reads) eventually
\* returns with an error when the device never produces the bytes.
C13_SilentDeviceReturns ==
    \A g \in Goroutines :
        (thr[g].pc = "ReadAll") ~> (thr[g].pc = "idle" /\ call.ret = "err:EOF")

\* Goroutine g has changed a pin cache inside a call and has not yet made
\* the transport writes of that call.
MidCall(g) == thr[g].pc \in {"io", "write"}

\* C14: on one FT232H the cache mutations and transport writes of one public
\* operation (TxPackets, pin In/Out, group writes) never interleave with
\* those of another one invoked concurrently.
C14_Serialized ==
    \A g \in Goroutines, h \in Goroutines :
        g # h => ~(MidCall(g) /\ MidCall(h))

\* The group-set command for grp that the last call delivered, if any: the
\* pin and group calls deliver at most one command.
DeliveredSet(grp, w) ==
    Len(w) = 3 /\ w[1] = (IF grp = "C" THEN gpioSetC ELSE gpioSetD)

\* C15: after every completed pin or group call, succeeded or failed, the
\* cached direction and value bytes of each 8-pin group equal those of the
\* last group-set command delivered to the device: a call that delivers one
\* leaves the cache equal to it, a call that delivers none leaves the cache
\* as it was.
C15_CacheIsLastDelivered ==
    [][\A grp \in Groups :
          IF DeliveredSet(grp, wire')
          THEN Cache(grp)' = [direction |-> wire'[3], value |-> wire'[2]]
          ELSE Cache(grp)' = Cache(grp)]_vars

-----------------------------------------------------------------------------
(* Claims about handle.Write, handle.ReadAll and InitMPSSE.                *)

\* C16: handle.Write(b) passes b to the device in order, in requests of at
\* most 4096 bytes, each starting at the first byte not yet accepted; it
\* returns (len(b), nil) only when every byte was accepted, and on a device
\* error it returns the error with n the number of bytes accepted so far.
C16_WriteChunksInOrder ==
    call.op = "Write" =>
        /\ \A k \in 1..Len(ctl) :
              /\ ctl[k].len <= maxChunk
              /\ ctl[k].len = Min(call.arg - ctl[k].off, maxChunk)
              /\ ctl[k].off = IF k = 1 THEN 0 ELSE ctl[k - 1].off + ctl[k - 1].p
        /\ Len(wire) = IF ctl = <<>> THEN 0
                       ELSE ctl[Len(ctl)].off + ctl[Len(ctl)].p
        /\ wire = [i \in 1..Len(wire) |-> WriteByte(i)]
        /\ call.ret = "ok" => call.n = call.arg /\ Len(wire) = call.arg
        /\ call.ret # "ok" => call.n = Len(wire)

C16_Witness ==
    /\ call.op = "Write" /\ call.ret = "ok" /\ call.arg = maxChunk + 3
    /\ Len(ctl) = 3 /\ ctl[1].p = maxChunk /\ ctl[2].len = 3 /\ ctl[2].p = 1
    /\ ctl[3].off = maxChunk + 1 /\ ctl[3].len = 2

\* C17: handle.ReadAll(ctx, b) returns (len(b), nil) only when b has been
\* filled contiguously and in arrival order by reads that each request at
\* most min(pending bytes, 4096, remaining space); when a pass finds the
\* context cancelled before b is full it returns a non-nil truncated-read
\* error with n < len(b) equal to the number of bytes read so far; it never
\* returns nil with n < len(b).
C17_ReadAllFillsOrTruncates ==
    call.op = "ReadAll" =>
        /\ call.ret = "ok" =>
              /\ call.n = call.arg
              /\ call.arg = IF ctl = <<>> THEN 0
                            ELSE ctl[Len(ctl)].off + ctl[Len(ctl)].n
              /\ \A k \in 1..Len(ctl) :
                    /\ ctl[k].first = ctl[k].off + 1
                    /\ ctl[k].len <= ctl[k].pending
                    /\ ctl[k].len <= maxChunk
                    /\ ctl[k].len <= call.arg - ctl[k].off
                    /\ ctl[k].off = IF k = 1 THEN 0
                                    ELSE ctl[k - 1].off + ctl[k - 1].n
        /\ call.ret = "err:EOF" =>
              /\ call.n < call.arg
              /\ call.n = call.got
              /\ call.n = IF ctl = <<>> THEN 0
                          ELSE ctl[Len(ctl)].off + ctl[Len(ctl)].n
        /\ call.n < call.arg => call.ret # "ok"

C17_Witness ==
    /\ call.op = "ReadAll" /\ call.ret = "err:EOF" /\ call.arg = maxChunk + 3
    /\ call.n = maxChunk /\ Len(ctl) = 1 /\ ctl[1].pending > maxChunk

\* The calls of a kind among the calls InitMPSSE made.
Calls(kind) == SelectSeq(ctl, LAMBDA m : m.kind = kind)
FirstVerifyFailed == ctl # <<>> /\ ctl[1].kind = "mpsseVerify" /\ ctl[1].ret # "ok"
\* The initial command was handed to the device after a verification passed.
CmdAfterGoodVerify ==
    \A i \in 1..Len(ctl) :
        ctl[i].kind = "Write" =>
            \E j \in 1..(i - 1) : ctl[j].kind = "mpsseVerify" /\ ctl[j].ret = "ok"

\* C18: InitMPSSE verifies the engine mode at most twice; if the first
\* verification succeeds no reset is performed; if it fails, reset,
\* re-initialization and set-MPSSE-mode are each performed exactly once and
\* verification runs a second time; if the second fails InitMPSSE returns an
\* error; the initial command is written only after a verification succeeded.
C18_TwoAttempts ==
    call.op = "InitMPSSE" =>
        /\ Len(Calls("mpsseVerify")) <= 2
        /\ ~FirstVerifyFailed => Calls("Reset") = <<>>
        /\ FirstVerifyFailed =>
              /\ Len(Calls("Reset")) = 1 /\ Len(Calls("Init")) = 1
              /\ Len(Calls("SetBitMode")) = 1
              /\ Len(Calls("mpsseVerify")) = 2
        /\ (Len(Calls("mpsseVerify")) = 2 /\ Calls("mpsseVerify")[2].ret # "ok")
              => call.ret # "ok"
        /\ CmdAfterGoodVerify

\* C18, amended: after a failed first verification, reset, re-initialization
\* and set-MPSSE-mode are attempted in that order, each at most once and
\* each only when the one before succeeded; a failure of any of them ends
\* InitMPSSE with an error, and the second verification runs exactly when
\* all three succeeded.
C18_TwoAttemptsUnlessStepFails ==
    call.op = "InitMPSSE" =>
        /\ Len(Calls("mpsseVerify")) <= 2
        /\ ctl[1].kind = "mpsseVerify"
        /\ ~FirstVerifyFailed =>
              Calls("Reset") = <<>> /\ Len(Calls("mpsseVerify")) = 1
        /\ FirstVerifyFailed =>
              /\ Len(ctl) >= 2 /\ ctl[2].kind = "Reset"
              /\ Len(Calls("Reset")) = 1
              /\ ctl[2].ret # "ok" => Len(ctl) = 2 /\ call.ret # "ok"
              /\ ctl[2].ret = "ok" =>
                    /\ Len(ctl) >= 3 /\ ctl[3].kind = "Init"
                    /\ Len(Calls("Init")) = 1
                    /\ ctl[3].ret # "ok" => Len(ctl) = 3 /\ call.ret # "ok"
                    /\ ctl[3].ret = "ok" =>
                          /\ Len(ctl) >= 4
                          /\ ctl[4] = Made("SetBitMode", <<0, bitModeMpsse>>,
                                           ctl[4].ret)
                          /\ Len(Calls("SetBitMode")) = 1
                          /\ ctl[4].ret # "ok" =>
                                Len(ctl) = 4 /\ call.ret # "ok"
                          /\ ctl[4].ret = "ok" =>
                                /\ Len(ctl) >= 5 /\ ctl[5].kind = "mpsseVerify"
                                /\ Len(Calls("mpsseVerify")) = 2
        /\ (Len(Calls("mpsseVerify")) = 2 /\ Calls("mpsseVerify")[2].ret # "ok")
              => call.ret # "ok" /\ Len(ctl) = 5
        /\ CmdAfterGoodVerify

C18_Witness ==
    /\ call = [op |-> "InitMPSSE", ret |-> "ok"]
    /\ Len(ctl) = 6 /\ ctl[1].ret = "echo" /\ ctl[2].kind = "Reset"
    /\ ctl[5] = Made("mpsseVerify", <<0>>, "ok") /\ ctl[6].kind = "Write"
    /\ wire = <<170, flush, 170, flush, 171, flush>> \o InitCmd

-----------------------------------------------------------------------------
(* Claims about the SPI connection once made.                              *)

\* C19: between a successful SPI Connect and the matching Close, no call
\* that returns an error changes the connection's captured mode (clock
\* phase, clock polarity, no-CS, LSB-first, half-duplex).
C19_FailedCallKeepsMode ==
    [][(holdsConn /\ usingSPI /\ call'.ret # "ok") => conn' = conn]_vars


\* Direction and level of the chip-select pin D3 as the driver last set them.
D3Direction == IF dev = "FT232H" THEN Bit(dbus.direction, 3) ELSE Bit(dmask, 3)
D3Level == IF dev = "FT232H" THEN Bit(dbus.value, 3) ELSE Bit(dvalue, 3)

\* C20: when the connection is made with the NoCS flag, neither Connect nor
\* any TxPackets call changes the direction or the driven level of the
\* chip-select pin D3, on the command-stream and on the bit-bang engine.
C20_NoCSLeavesD3 ==
    [][(call'.op \in {"Connect", "TxPackets"} /\ conn'.noCS)
          => D3Direction' = D3Direction /\ D3Level' = D3Level]_vars

-----------------------------------------------------------------------------
(* Claims about the engines sharing the FT232H's pins D0~D3.               *)

\* C21: on an FT232H a bus engine changes the cached D-group bytes or writes
\* to the device only while its own exclusivity flag is set: TxPackets on a
\* connection whose port is closed, and I2C Tx or Close on a bus that is
\* closed, leave the cache and the device untouched.
C21_OnlyHolderTouchesBus ==
    [][/\ (call'.op = "TxPackets" /\ ~usingSPI)
             => (dbus' = dbus /\ wire' = <<>>)
       /\ (call'.op \in {"Tx", "I2CClose"} /\ ~usingI2C)
             => (dbus' = dbus /\ wire' = <<>>)]_vars

-----------------------------------------------------------------------------
(* Claims about the D pins used as GPIOs.                                  *)

\* The cached direction and value bytes of the D group on either chip.
CachedDirection == IF dev = "FT232H" THEN dbus.direction ELSE dmask
CachedValue == IF dev = "FT232H" THEN dbus.value ELSE dvalue

\* The call just made wrote to the device, and the last value it wrote makes
\* pin n an output at level lv.
DrivesPin(n, lv) ==
    IF dev = "FT232H"
    THEN /\ Len(wire') = 3 /\ wire'[1] = gpioSetD
         /\ Bit(wire'[3], n) = 1 /\ Bit(wire'[2], n) = lv
    ELSE /\ wire' # <<>> /\ Bit(wire'[Len(wire')], n) = lv
         /\ Bit(dmask', n) = 1

\* Bit n of byte b set to lv, the other bits kept.
WithBit(b, n, lv) == IF lv = 1 THEN BitOr(b, 2 ^ n) ELSE AndNot(b, 2 ^ n)

\* C22: for every D pin n and level l, on the FT232H and on the FT232R:
\* when pin Out(l) returns nil, the last value written to the device drives
\* pin n as an output at level l, the cached direction bit n is 1, the cached
\* value bit n is l, and no other cached direction or value bit has changed.
C22_OutDrivesPin ==
    [][\A n \in PinNumbers \cup SyncPinNumbers, l \in BOOLEAN :
          (/\ call'.op = "Out" /\ call'.ret = "ok"
           /\ \E fails \in FailSets :
                  PinOut("D", n, l, fails) \/ SyncPinOut(n, l, fails))
          => \E lv \in {IF l THEN 1 ELSE 0} :
                 /\ DrivesPin(n, lv)
                 /\ CachedDirection' = WithBit(CachedDirection, n, 1)
                 /\ CachedValue' = WithBit(CachedValue, n, lv)]_vars

-----------------------------------------------------------------------------
(* Claims about gpioioctl lines.                                           *)

\* C23: over any sequence of In, Out, Read and Close calls on a GPIOLine:
\* after Out returns nil the line's direction is LineOutput with edge NoEdge
\* and pull PullNoChange; after Read on a line not configured as input the
\* direction is LineInput with pull PullUp; after Close the direction is
\* LineDirNotSet, the edge NoEdge, the pull PullNoChange and the file
\* descriptor 0.
C23_LineFieldsFollowCalls ==
    [][/\ (call'.op = "Out" /\ call'.ret = "ok")
             => (/\ line'.direction = "Output" /\ line'.edge = "NoEdge"
                 /\ line'.pull = "PullNoChange")
       /\ (call'.op = "Read" /\ line.direction # "Input")
             => (line'.direction = "Input" /\ line'.pull = "PullUp")
       /\ (call'.op = "Close")
             => (/\ line'.direction = "NotSet" /\ line'.edge = "NoEdge"
                 /\ line'.pull = "PullNoChange" /\ line'.fd = 0)]_vars

\* Out has returned nil on a line that already held a descriptor and was not
\* an output: the call reconfigured it as output, then set the level high.
C23_Witness ==
    /\ call = [op |-> "Out", ret |-> "ok"]
    /\ Len(ctl) = 2 /\ ctl[1].kind = "line_config" /\ ctl[2].kind = "set_values"
    /\ line.direction = "Output" /\ line.pull = "PullNoChange"
    /\ kern.flags = {"OUTPUT"} /\ kern.value


\* C24: on a line configured for edge detection, once a Halt call made
\* while a WaitForEdge call is in progress has returned, that WaitForEdge
\* returns without waiting for its timeout: it is never left blocked in its
\* read with a read deadline that has not passed.
C24_HaltInterruptsWait ==
    \A g \in Goroutines :
        ~(call.op = "Halt" /\ thr[g].op = "WaitForEdge" /\ thr[g].pc = "read"
          /\ kern.deadline # "past")

-----------------------------------------------------------------------------
(* Claims about the cached maximum frequency of the SPI port.              *)

\* The bytes w hold exactly one clock-configuration command, first.
OneClockCmd(w) ==
    /\ Len(w) \in {4, 7}
    /\ w[1] \in {clock30MHz, clock6MHz} /\ w[2] = clockSetDivisor
    /\ Len(w) = 7 => w[5] = gpioSetD

\* The bytes w hold no clock-configuration command.
NoClockCmd(w) == w = <<>> \/ (Len(w) = 3 /\ w[1] = gpioSetD)

-----------------------------------------------------------------------------
(* Claims about transfers that span several command buffers.               *)

\* The command stream bytes as the MPSSE decodes it from position i: a
\* pin-set command takes two operands, a data-transfer instruction a 16-bit
\* length and, when it clocks data out, that many bytes; any other opcode is
\* one byte.
RECURSIVE MpsseDecode(_, _)
MpsseDecode(bytes, i) ==
    IF i > Len(bytes) THEN <<>>
    ELSE IF bytes[i] = gpioSetD /\ i + 2 <= Len(bytes)
    THEN MpsseDecode(bytes, i + 3)
    ELSE IF /\ bytes[i] < 128 /\ i + 2 <= Len(bytes)
            /\ (BitAnd(bytes[i], dataOut) # 0 \/ BitAnd(bytes[i], dataIn) # 0)
    THEN LET n == bytes[i + 1] + 256 * bytes[i + 2] + 1
             out == BitAnd(bytes[i], dataOut) # 0
         IN  <<[op |-> "data", n |-> n,
                payload |-> IF out THEN SubSeq(bytes, i + 3, i + 2 + n)
                            ELSE <<>>]>>
             \o MpsseDecode(bytes, i + 3 + (IF out THEN n ELSE 0))
    ELSE IF bytes[i] = flush THEN MpsseDecode(bytes, i + 1)
    ELSE <<[op |-> "other", n |-> 0, payload |-> <<bytes[i]>>]>>
         \o MpsseDecode(bytes, i + 1)

\* The bytes the data-transfer instructions among ins clock, and the bytes
\* they carry as payload.
RECURSIVE Clocked(_, _)
Clocked(ins, j) == IF j = 0 THEN 0 ELSE Clocked(ins, j - 1) + ins[j].n
Payloads(ins) == Flatten([j \in 1..Len(ins) |-> ins[j].payload])

\* Bytes clocked by the writes among the first j events, and bytes the reads
\* among them asked for.
RECURSIVE ClockedBy(_, _)
ClockedBy(evs, j) ==
    IF j = 0 THEN 0
    ELSE ClockedBy(evs, j - 1)
         + (IF evs[j].kind = "Write"
            THEN LET ins == MpsseDecode(evs[j].data, 1)
                 IN  Clocked(ins, Len(ins))
            ELSE 0)

\* C26: in command-stream TxPackets, for packets of any length spanning
\* several 512-byte command buffers: at every read request of n bytes, the
\* data bytes clocked for the packet so far minus the bytes already read is at
\* least n; the stream holds only pin-set, send-immediate and data-transfer
\* instructions, whose payloads concatenate to exactly W in order; and R is
\* filled in order with exactly len(R) bytes.
C26_PipelineKeepsOrder ==
    [][\A p \in PipePacketInputs, data \in PipeDataInputs :
          (call'.op = "TxPackets" /\ TxPackets(<<p>>, data, {}))
          => /\ \E evs \in {mpssePacket(1, p, dbus', conn)} :
                    \A j \in 1..Len(evs) :
                        evs[j].kind = "Read"
                        => ClockedBy(evs, j) - ReadBase(evs, j) >= evs[j].n
             /\ \E ins \in {MpsseDecode(wire', 1)} :
                    /\ \A j \in 1..Len(ins) : ins[j].op = "data"
                    /\ Payloads(ins) = p.W
             /\ rbuf' = <<SubSeq(data, 1, Len(p.R))>>]_vars

-----------------------------------------------------------------------------
(* Claims about the bit-bang transfer.                                     *)

\* Bytes the packets before the k-th one clock out.
RECURSIVE BytesBefore(_, _)
BytesBefore(pkts, k) ==
    IF k <= 1 THEN 0
    ELSE BytesBefore(pkts, k - 1)
         + (IF Len(pkts[k - 1].W) # 0 THEN Len(pkts[k - 1].W)
            ELSE Len(pkts[k - 1].R))

\* The sample (from 1) taken at the second clock phase of bit j of byte i
\* (both from 0) of the k-th packet.
SampleOf(pkts, k, i, j) == 5 + (BytesBefore(pkts, k) + i) * 8 * 2 + j * 2 + 1 + 1

\* C27: in bit-bang TxPackets, for every packet of the list, every byte
\* index i and every bit index j, bit j of R[i] (in the configured bit
\* order) is the level of MISO (bit 1) in the sample of that packet's own
\* byte i, bit j, also when earlier packets of the list clocked bytes.
C27_DecimationReadsMiso ==
    [][\A pkts \in DecimPacketInputs, pat \in SlavePatterns :
          \A re \in {SlaveSamples(syncExpand(pkts, conn),
                                  syncTotalR(pkts), pat)} :
              (/\ call'.op = "TxPackets"
               /\ SyncTxPackets(pkts, re, {})
               /\ call'.ret = "ok")
              => \A k \in 1..Len(pkts) :
                     \A i \in 0..(Len(pkts[k].R) - 1), j \in 0..7 :
                         SampleOf(pkts, k, i, j) <= Len(re)
                         => Bit(rbuf'[k][i + 1],
                                IF conn.lsbFirst THEN j ELSE 7 - j)
                            = Bit(re[SampleOf(pkts, k, i, j)], 1)]_vars

\* Samples the reads among evs ask for.
SamplesRead(evs) == ReadBase(evs, Len(evs) + 1)

\* C28: for every valid packet list given to bit-bang TxPackets, read-only
\* packets and lists mixing write-only with read/write packets included,
\* every sample of the expanded write stream is written to the device, as
\* many samples are requested back as were written whenever there is a read
\* buffer, and the call returns.
C28_EverySampleWritten ==
    [][\A pkts \in DecimPacketInputs, pat \in SlavePatterns :
          \A we \in {syncExpand(pkts, conn)} :
              (/\ call'.op = "TxPackets"
               /\ SyncTxPackets(pkts,
                                SlaveSamples(we, syncTotalR(pkts), pat), {}))
              => /\ call'.ret = "ok"
                 /\ wire' = we
                 /\ syncTotalR(pkts) # 0
                    => SamplesRead(txLocked(we, syncTotalR(pkts), dvalue))
                       = Len(wire')]_vars

-----------------------------------------------------------------------------
(* Claims about short writes and the end of an I2C transaction.            *)

\* C29: command-stream TxPackets returns nil only if the transport took
\* every byte of every command buffer it assembled: a short write (fewer
\* bytes taken than submitted, no error) is retried or surfaced as an error.
C29_ShortWriteNotDropped ==
    [][\A pkts \in FastPacketInputs, data \in MisoInputs,
          answers \in AnswerInputs :
          (/\ call'.op = "TxPackets"
           /\ TxPacketsFast(pkts, data, answers)
           /\ call'.ret = "ok")
          => wire' = EventBytes(Flatten([k \in 1..Len(pkts) |->
                         mpssePacket(k, pkts[k], dbus', conn)]))]_vars

\* The value byte of the last set-data-bits command of an MPSSE stream, from
\* position i on; last is the one seen so far (-1: none).
RECURSIVE LastLineValue(_, _, _)
LastLineValue(bytes, i, last) ==
    IF i > Len(bytes) THEN last
    ELSE IF bytes[i] = gpioSetD THEN LastLineValue(bytes, i + 3, bytes[i + 1])
    ELSE IF bytes[i] = flush THEN LastLineValue(bytes, i + 1, last)
    ELSE IF BitAnd(bytes[i], dataBit) # 0
    THEN LastLineValue(bytes,
                       i + (IF BitAnd(bytes[i], dataOut) # 0 THEN 3 ELSE 2),
                       last)
    ELSE LastLineValue(bytes,
                       i + 3 + (IF BitAnd(bytes[i], dataOut) # 0
                                THEN bytes[i + 1] + 256 * bytes[i + 2] + 1
                                ELSE 0),
                       last)

\* The stream holds the stop sequence of setI2CStop.
StopSent(bytes, d) ==
    \E i \in 1..Len(bytes) :
        /\ i + Len(setI2CStop(d)) - 1 <= Len(bytes)
        /\ SubSeq(bytes, i, i + Len(setI2CStop(d)) - 1) = setI2CStop(d)

\* C30: whenever I2C Tx returns after having sent a start condition, with
\* nil or with the "got NAK" error, a stop condition has been sent and the
\* last line command leaves SCL and SDA released high.
C30_StopAlwaysSent ==
    (call.op = "Tx" /\ call.ret \in {"ok", "err:nak"})
    => /\ StopSent(wire, dbus)
       /\ BitAnd(LastLineValue(wire, 1, 0), i2cSCL + i2cSDAOut)
          = i2cSCL + i2cSDAOut

====
